---- MODULE Spec2Model ----
(***************************************************************************)
(* The canvas interaction engine of the whiteboard (src/App.tsx): the      *)
(* element store, the undo/redo history, the selection and the pointer     *)
(* gesture state machine, as a state machine over the React state of the   *)
(* App component.                                                          *)
(*                                                                         *)
(* One action is one event handler run to completion: React batches the    *)
(* handler's state updates, renders, and then runs the effect of           *)
(* App.tsx:36-38 when history or historyStep changed.  Handlers created in *)
(* the render body read the state of the latest render.  Numbers are world *)
(* units kept as integers: a half and a square root drop their fraction.   *)
(***************************************************************************)
EXTENDS Integers, Sequences, FiniteSets, TLC

\* ------------------------------------------------------------------ bounds
MaxIds == 2          \* uuidv4() calls a run may make
MaxHistory == 3      \* longest snapshot sequence a commit may produce
MaxPoints == 2       \* points a freehand stroke may hold before pointer-up
MaxPan == 4          \* largest |viewTransform.x|, |viewTransform.y| a pan may reach
MaxEvents == 5       \* events other than undo and redo a session may hold

\* ------------------------------------------------------- input alphabets
\* undefined, where an object (an element, a point) may stand
Undefined == [undefined |-> TRUE]
\* null, where a point may stand
Null == [null |-> TRUE]
\* null, where an element id or a handle direction may stand
NullId == "null"
\* the ids uuidv4() hands out, in order
Uuids == <<"a", "b", "c", "d", "e", "f", "g", "h">>
Pt(px, py) == [x |-> px, y |-> py]
\* pointer positions the mouse events carry (client coordinates; the
\* container's bounding rect is at the origin)
Pts == {Pt(0, 0), Pt(3, 4), Pt(30, 40)}     \* clientX, clientY of a move
DownPts == {Pt(0, 0)}                       \* clientX, clientY of a press
Buttons == {0, 1, 2}
\* the tools of the toolbar and the keyboard shortcuts that the runs use
Tools == {"select", "pen", "rect", "line"}
Handles == {"nw", "e", "s"}
Texts == {"", "hi"}
NewContents == {"x"}
MenuActions == {"delete", "duplicate", "front", "back"}
FillColors == {"#ffffff"}
\* ContextMenu.tsx:247
ShapeTypes == {"rect", "circle", "triangle", "rhombus", "arrow", "line", "cylinder"}

\* ---------------------------------------------------------------- state
VARIABLES
  history,        \* BoardElement[][]                       App.tsx:21
  historyStep,    \* index into history, 0-based            App.tsx:22
  elements,       \* BoardElement[]                         App.tsx:25
  activeTool,     \*                                        App.tsx:47
  selectedIds,    \* string[]                               App.tsx:48
  viewTransform,  \* {x, y, scale}                          App.tsx:50
  isPanning,      \*                                        App.tsx:51
  panStart,       \*                                        App.tsx:52
  creationStart,  \* Point | null                           App.tsx:55
  dragInfo,       \*                                        App.tsx:57
  resizeInfo,     \*                                        App.tsx:64
  rotateInfo,     \*                                        App.tsx:75
  isDrawing,      \*                                        App.tsx:84
  contextMenu,    \* {isOpen, selectedIds}                  App.tsx:89
  pasteElementsLength, \* elements.length in the closure of the paste
                  \* listener, registered when viewTransform last changed
                  \*                                        App.tsx:867-881
  nextId,         \* the number of ids uuidv4() has handed out
  crashed,        \* a state updater threw: the component tree is unmounted
  events,         \* the number of events dispatched, undo and redo apart
  pointer,        \* observer: the gesture begun by the last pointer-down
                  \* from rest, the element it created, what has been
                  \* dispatched since ("clean": pointer-moves only,
                  \* "presses": also pointer-downs, "keys": moves, tool
                  \* shortcuts and pastes, "other": anything else)
                  \* and, right after the pointer-up, the gesture it ended;
                  \* for a pan, the view before the pointer-down and the
                  \* client position the pointer-down stored
  undoRedo,       \* observer: commits counted from the initial state, then
                  \* the run of undos and the run of redos that follow them
  clipboardReads, \* the handlePaste calls awaiting clipboard.readText(),
                  \* each with the state its closure holds   App.tsx:272-285
  summarizeCalls, \* the handleSummarize calls awaiting summarizeBoard
                  \*                                        App.tsx:287-303
  isProcessingAI, \*                                        App.tsx:87
  summary,        \*                                        App.tsx:85
  isSummaryOpen,  \*                                        App.tsx:86
  alerted         \* the message of the last alert(), "" when there was none

vars == <<history, historyStep, elements, activeTool, selectedIds,
          viewTransform, isPanning, panStart, creationStart, dragInfo,
          resizeInfo, rotateInfo, isDrawing, contextMenu,
          pasteElementsLength, nextId, crashed, events, pointer, undoRedo,
          clipboardReads, summarizeCalls, isProcessingAI, summary,
          isSummaryOpen, alerted>>

\* the state of the clipboard reads, of the summaries and of the alerts
external == <<clipboardReads, summarizeCalls, isProcessingAI, summary,
              isSummaryOpen, alerted>>

\* ------------------------------------------------------ sequence helpers
Max2(a, b) == IF a >= b THEN a ELSE b
Min2(a, b) == IF a <= b THEN a ELSE b
Abs(a) == IF a < 0 THEN -a ELSE a

SeqMax(s) == CHOOSE m \in {s[i] : i \in 1..Len(s)} : \A i \in 1..Len(s) : s[i] <= m
SeqMin(s) == CHOOSE m \in {s[i] : i \in 1..Len(s)} : \A i \in 1..Len(s) : m <= s[i]

\* Array.prototype.map
Map(s, F(_)) == [i \in 1..Len(s) |-> F(s[i])]

\* Array.prototype.filter is SelectSeq.

\* Array.prototype.includes
Includes(s, v) == \E i \in 1..Len(s) : s[i] = v

\* Array.prototype.find: the first match, or undefined
Find(s, P(_)) ==
  IF \E i \in 1..Len(s) : P(s[i])
  THEN s[CHOOSE i \in 1..Len(s) : P(s[i]) /\ \A j \in 1..(i - 1) : ~P(s[j])]
  ELSE Undefined

\* an element is a record of the fields its object has
Has(el, field) == field \in DOMAIN el
\* {...el, ...updates}
With(el, updates) == updates @@ el
\* JavaScript truthiness of an optional numeric field
Truthy(el, field) == Has(el, field) /\ el[field] # 0
\* el.field || d
OrElse(el, field, d) == IF Truthy(el, field) THEN el[field] ELSE d

Ids(els) == {els[i].id : i \in 1..Len(els)}

\* floor of the square root
Sqrt(n) == CHOOSE r \in 0..n : r * r <= n /\ (r + 1) * (r + 1) > n

\* ------------------------------------------------------------ geometry
\* the container's getBoundingClientRect(): left = top = 0
ViewSize == [width |-> 800, height |-> 600]

\* App.tsx:102-107
screenToWorld(screenX, screenY) ==
  Pt((screenX - viewTransform.x) \div viewTransform.scale,
     (screenY - viewTransform.y) \div viewTransform.scale)

\* App.tsx:109-115, e.clientX / e.clientY are the fields of p
getMousePos(p) == screenToWorld(p.x - 0, p.y - 0)

\* 1000 * tan(d degrees) for d = 1..45, rounded down
Tan1000 == <<17, 34, 52, 69, 87, 105, 122, 140, 158, 176, 194, 212, 230, 249,
             267, 286, 305, 324, 344, 363, 383, 404, 424, 445, 466, 487, 509,
             531, 554, 577, 600, 624, 649, 674, 700, 726, 753, 781, 809, 839,
             869, 900, 932, 965, 1000>>

\* the angle in 0..45 degrees whose tangent is a / b, rounded down (0 <= a <= b, b > 0)
AtanDeg(a, b) ==
  CHOOSE d \in 0..45 :
    /\ (d = 0 \/ Tan1000[d] * b <= 1000 * a)
    /\ (d = 45 \/ Tan1000[d + 1] * b > 1000 * a)

\* Math.atan2(dy, dx) * (180 / Math.PI), in whole degrees in -180..180
Atan2Deg(dy, dx) ==
  LET ax == Abs(dx)
      ay == Abs(dy)
      first == IF ax = 0 /\ ay = 0 THEN 0
               ELSE IF ay <= ax THEN AtanDeg(ay, ax)
               ELSE 90 - AtanDeg(ax, ay)
      upper == IF dx >= 0 THEN first ELSE 180 - first
  IN IF dy >= 0 THEN upper ELSE -upper

\* 1000000 * tan(h / 2 degrees) for h = 1..90, rounded down
TanHalf == <<8726, 17455, 26185, 34920, 43660, 52407, 61162, 69926, 78701,
             87488, 96289, 105104, 113935, 122784, 131652, 140540, 149451, 158384,
             167342, 176326, 185339, 194380, 203452, 212556, 221694, 230868, 240078,
             249328, 258617, 267949, 277324, 286745, 296213, 305730, 315298, 324919,
             334595, 344327, 354118, 363970, 373884, 383864, 393910, 404026, 414213,
             424474, 434812, 445228, 455726, 466307, 476975, 487732, 498581, 509525,
             520567, 531709, 542955, 554309, 565772, 577350, 589045, 600860, 612800,
             624869, 637070, 649407, 661885, 674508, 687280, 700207, 713293, 726542,
             739961, 753554, 767326, 781285, 795435, 809784, 824336, 839099, 854080,
             869286, 884725, 900404, 916331, 932515, 948964, 965688, 982697, 1000000>>

\* twice the angle in 0..45 degrees whose tangent is a / b, rounded down
\* (0 <= a <= b, b > 0); it is a whole number at a = 0 and at a = b only
AtanHalfDeg(a, b) ==
  CHOOSE h \in 0..90 :
    /\ (h = 0 \/ TanHalf[h] * b <= 1000000 * a)
    /\ (h = 90 \/ TanHalf[h + 1] * b > 1000000 * a)

\* 2 * Math.atan2(dy, dx) * (180 / Math.PI), rounded down: half degrees in
\* -360..360
Atan2HalfDeg(dy, dx) ==
  LET ax == Abs(dx)
      ay == Abs(dy)
      up == IF ax = 0 \/ ay = 0 \/ ax = ay THEN 0 ELSE 1
      first == IF ax = 0 /\ ay = 0 THEN 0
               ELSE IF ay <= ax THEN AtanHalfDeg(ay, ax)
               ELSE 180 - AtanHalfDeg(ax, ay) - up
      upper == IF dx >= 0 THEN first ELSE 360 - (first + up)
      upperUp == IF dx >= 0 THEN first + up ELSE 360 - first
  IN IF dy >= 0 THEN upper ELSE 0 - upperUp

\* a snap to the multiple of 15 degrees below the angle
FloorTo15(halfDegrees) == (halfDegrees \div 30) * 15

\* Math.round(angle / 15) * 15 for an angle whose double, rounded down, is
\* halfDegrees: halves round towards +infinity
RoundTo15(halfDegrees) == ((halfDegrees + 15) \div 30) * 15

\* ------------------------------------------------- numbers of the zoom
\* The wheel multiplies and divides by fractions of the scale; these numbers
\* are kept exact, as fractions n / d in lowest terms with d > 0.
RECURSIVE Gcd(_, _)
Gcd(a, b) == IF b = 0 THEN a ELSE Gcd(b, a % b)

Rat(n, d) ==
  LET g == Gcd(Abs(n), Abs(d))
      sign == IF d < 0 THEN -1 ELSE 1
  IN [n |-> sign * (n \div g), d |-> sign * (d \div g)]
RatOf(i) == [n |-> i, d |-> 1]
RatAdd(a, b) == Rat(a.n * b.d + b.n * a.d, a.d * b.d)
RatSub(a, b) == Rat(a.n * b.d - b.n * a.d, a.d * b.d)
RatMul(a, b) == Rat(a.n * b.n, a.d * b.d)
RatDiv(a, b) == Rat(a.n * b.d, a.d * b.n)
RatLess(a, b) == a.n * b.d < b.n * a.d
\* Math.max and Math.min
RatMax(a, b) == IF RatLess(a, b) THEN b ELSE a
RatMin(a, b) == IF RatLess(b, a) THEN b ELSE a
IsWhole(a) == a.d = 1

\* a zoom about the origin of the screen, whatever the pointer's position
WheelTransformAboutOrigin(view, deltaY, mouse) ==
  LET scaleAmount == Rat(0 - deltaY, 1000)
      newScale == RatMin(RatMax(Rat(1, 10),
                                RatMul(view.scale, RatAdd(RatOf(1), scaleAmount))),
                         RatOf(5))
  IN [x |-> RatMul(RatDiv(view.x, view.scale), newScale),
      y |-> RatMul(RatDiv(view.y, view.scale), newScale),
      scale |-> newScale]

\* App.tsx:464-480, the view a wheel event with e.deltaY = deltaY at the
\* client position mouse leaves; the container's rect is at the origin
WheelTransform(view, deltaY, mouse) ==
  LET scaleAmount == Rat(0 - deltaY, 1000)
      newScale == RatMin(RatMax(Rat(1, 10),
                                RatMul(view.scale, RatAdd(RatOf(1), scaleAmount))),
                         RatOf(5))
      mouseX == RatOf(mouse.x - 0)
      mouseY == RatOf(mouse.y - 0)
      worldX == RatDiv(RatSub(mouseX, view.x), view.scale)
      worldY == RatDiv(RatSub(mouseY, view.y), view.scale)
      newX == RatSub(mouseX, RatMul(worldX, newScale))
      newY == RatSub(mouseY, RatMul(worldY, newScale))
  IN [x |-> newX, y |-> newY, scale |-> newScale]

\* ------------------------------------------------------------ elements
\* App.tsx:28-29, the initial tool configurations
penConfig == [color |-> "#1f2937", width |-> 3]
markerConfig == [color |-> "#fde047", width |-> 25]

\* App.tsx:99
isDrawingMode == activeTool = "pen" \/ activeTool = "highlighter"

\* the element a freehand pointer-down inserts, App.tsx:515-527
NewPathElement(newPathId, pos) ==
  LET config == IF activeTool = "pen" THEN penConfig ELSE markerConfig
  IN [id |-> newPathId, type |-> activeTool, x |-> 0, y |-> 0,
      points |-> <<pos>>, color |-> config.color,
      strokeWidth |-> config.width,
      zIndex |-> IF activeTool = "highlighter" THEN 0 ELSE Len(elements) + 1,
      width |-> pos.x + config.width * 2,
      height |-> pos.y + config.width * 2,
      rotation |-> 0]

\* the element a drag-to-create pointer-down inserts, App.tsx:535-555
NewShapeElement(newId, pos) ==
  LET isSticky == activeTool = "sticky"
      isText == activeTool = "text"
  IN [id |-> newId, type |-> activeTool, x |-> pos.x, y |-> pos.y,
      zIndex |-> Len(elements) + 1,
      width |-> 0, height |-> 0,
      color |-> IF isSticky THEN "#fef3c7"
                ELSE IF isText THEN "#1f2937" ELSE "transparent",
      strokeWidth |-> 3,
      fontSize |-> IF isText THEN 24 ELSE 18,
      rotation |-> 0]
     @@ (IF isSticky \/ isText THEN [content |-> "Double click to edit"]
         ELSE [strokeColor |-> "#000000"])
     @@ (IF isText THEN <<>>
         ELSE [fillColor |-> IF isSticky THEN "#fef3c7" ELSE "transparent"])

\* App.tsx:251-270 in a closure whose viewTransform is view and whose
\* elements.length is elementsLength
createTextElementAtCenterIn(view, newId, text, elementsLength) ==
  LET centerX == (ViewSize.width \div 2 - view.x) \div view.scale
      centerY == (ViewSize.height \div 2 - view.y) \div view.scale
      isShort == Len(text) < 50
  IN [id |-> newId, type |-> IF isShort THEN "sticky" ELSE "text",
      x |-> centerX - 100, y |-> centerY - 50,
      width |-> 200, height |-> IF isShort THEN 200 ELSE 100,
      content |-> text,
      color |-> IF isShort THEN "#fef3c7" ELSE "#1f2937",
      zIndex |-> elementsLength + 1]

\* App.tsx:251-270; elementsLength is elements.length of the closure
createTextElementAtCenter(newId, text, elementsLength) ==
  createTextElementAtCenterIn(viewTransform, newId, text, elementsLength)

\* a normalisation that moves the box and leaves the points where they were
normalizeDrawingKeepPoints(el) ==
  IF ~Has(el, "points") \/ Len(el.points) = 0 THEN el
  ELSE
    LET xs == Map(el.points, LAMBDA q : q.x)
        ys == Map(el.points, LAMBDA q : q.y)
    IN With(el, [x |-> SeqMin(xs) - 5, y |-> SeqMin(ys) - 5,
                 width |-> Max2(20, SeqMax(xs) - SeqMin(xs) + 10),
                 height |-> Max2(20, SeqMax(ys) - SeqMin(ys) + 10)])

\* App.tsx:433-460
normalizeDrawing(el) ==
  IF ~Has(el, "points") \/ Len(el.points) = 0 THEN el
  ELSE
    LET xs == Map(el.points, LAMBDA q : q.x)
        ys == Map(el.points, LAMBDA q : q.y)
        minX == SeqMin(xs)
        minY == SeqMin(ys)
        maxX == SeqMax(xs)
        maxY == SeqMax(ys)
        padding == 5
        width == Max2(20, maxX - minX + padding * 2)
        height == Max2(20, maxY - minY + padding * 2)
        normalizedPoints ==
          Map(el.points, LAMBDA q : Pt(q.x - minX + padding, q.y - minY + padding))
    IN With(el, [x |-> minX - padding, y |-> minY - padding,
                 width |-> width, height |-> height,
                 points |-> normalizedPoints])

\* ------------------------------------------------------------- history
\* addToHistory without the slice: the snapshots after the cursor are kept
addToHistoryNoSlice(newElements) ==
  Append(history, newElements)

\* App.tsx:40-45: the new history; the new historyStep is its last index
addToHistory(newElements) ==
  Append(SubSeq(history, 1, historyStep + 1), newElements)

\* a handler that pushed the array the snapshot under the cursor is, after
\* changing it in place instead of changing a copy
CommitInPlace(newElements) ==
  /\ Len(addToHistory(newElements)) <= MaxHistory
  /\ history' = Append(SubSeq([history EXCEPT ![historyStep + 1] = newElements],
                              1, historyStep + 1), newElements)
  /\ historyStep' = Len(history') - 1
  /\ elements' = history'[historyStep' + 1]

\* a commit that pushes its snapshot twice
CommitTwice(newElements) ==
  /\ history' = Append(addToHistory(newElements), newElements)
  /\ historyStep' = Len(history') - 1
  /\ elements' = history'[historyStep' + 1]

\* a handler that called addToHistory(newElements): the state after the
\* render and the effect of App.tsx:36-38, which shows history[historyStep]
Commit(newElements) ==
  /\ Len(addToHistory(newElements)) <= MaxHistory
  /\ history' = addToHistory(newElements)
  /\ historyStep' = Len(history') - 1
  /\ elements' = history'[historyStep' + 1]

\* setElements that pushes every collection it is given onto the history
SetElementsAndCommit(newElements) ==
  /\ Len(addToHistory(newElements)) <= MaxHistory
  /\ history' = addToHistory(newElements)
  /\ historyStep' = Len(history') - 1
  /\ elements' = newElements

\* a handler that set elements and left the history alone
SetElements(newElements) ==
  /\ elements' = newElements
  /\ UNCHANGED <<history, historyStep>>

\* App.tsx:57-62, 64-73, 75-82, 89-94: the initial records
NoDrag == [isDragging |-> FALSE, startX |-> 0, startY |-> 0,
           initialPositions |-> <<>>]
NoResize == [isResizing |-> FALSE, handle |-> NullId, startX |-> 0,
             startY |-> 0, initialX |-> 0, initialY |-> 0,
             initialWidth |-> 0, initialHeight |-> 0]
NoRotate == [isRotating |-> FALSE, startX |-> 0, startY |-> 0,
             initialRotation |-> 0, centerX |-> 0, centerY |-> 0]
MenuClosed == [isOpen |-> FALSE, selectedIds |-> <<>>]

NoGesture ==
  UNCHANGED <<isPanning, panStart, creationStart, dragInfo, resizeInfo,
              rotateInfo, isDrawing>>

\* the view and the client position a gesture other than a pan is given
NoView == [x |-> 0, y |-> 0, scale |-> 1]

AtRest == [kind |-> "none", trace |-> "clean", id |-> NullId, ended |-> "none",
           view |-> NoView, at |-> Pt(0, 0)]

\* App.tsx:85-87, and no call awaiting its collaborator
ExternalIdle ==
  /\ clipboardReads = <<>>
  /\ summarizeCalls = 0
  /\ isProcessingAI = FALSE
  /\ summary = ""
  /\ isSummaryOpen = FALSE
  /\ alerted = ""

Init ==
  /\ history = << <<>> >>
  /\ historyStep = 0
  /\ elements = <<>>
  /\ activeTool = "select"
  /\ selectedIds = <<>>
  /\ viewTransform = [x |-> 0, y |-> 0, scale |-> 1]
  /\ isPanning = FALSE
  /\ panStart = Pt(0, 0)
  /\ creationStart = Null
  /\ dragInfo = NoDrag
  /\ resizeInfo = NoResize
  /\ rotateInfo = NoRotate
  /\ isDrawing = FALSE
  /\ contextMenu = MenuClosed
  /\ pasteElementsLength = 0
  /\ nextId = 0
  /\ crashed = FALSE
  /\ events = 0
  /\ pointer = AtRest
  /\ undoRedo = [phase |-> "commit", n |-> 0, k |-> 0, last |-> <<>>]
  /\ ExternalIdle

\* an undo that, at the first snapshot, goes round to the last one
handleUndoWraps ==
  /\ ~crashed
  /\ historyStep' = IF historyStep > 0 THEN historyStep - 1 ELSE Len(history) - 1
  /\ elements' = history[historyStep' + 1]
  /\ UNCHANGED <<history, activeTool, selectedIds, viewTransform, contextMenu,
                 pasteElementsLength, nextId, crashed>>
  /\ NoGesture

\* an undo that also takes the view back to the origin
handleUndoResetsView ==
  /\ ~crashed
  /\ IF historyStep > 0
     THEN /\ historyStep' = historyStep - 1
          /\ elements' = history[historyStep' + 1]
     ELSE UNCHANGED <<historyStep, elements>>
  /\ viewTransform' = [x |-> 0, y |-> 0, scale |-> 1]
  /\ UNCHANGED <<history, activeTool, selectedIds, contextMenu,
                 pasteElementsLength, nextId, crashed>>
  /\ NoGesture

\* App.tsx:191-195, and the effect of App.tsx:36-38
handleUndo ==
  /\ ~crashed
  /\ IF historyStep > 0
     THEN /\ historyStep' = historyStep - 1
          /\ elements' = history[historyStep' + 1]
     ELSE UNCHANGED <<historyStep, elements>>
  /\ UNCHANGED <<history, activeTool, selectedIds, viewTransform, contextMenu,
                 pasteElementsLength, nextId, crashed>>
  /\ NoGesture

\* handleRedo with its bound off by one: the last snapshot is out of reach
handleRedoShort ==
  /\ ~crashed
  /\ IF historyStep < Len(history) - 2
     THEN /\ historyStep' = historyStep + 1
          /\ elements' = history[historyStep' + 1]
     ELSE UNCHANGED <<historyStep, elements>>
  /\ UNCHANGED <<history, activeTool, selectedIds, viewTransform, contextMenu,
                 pasteElementsLength, nextId, crashed>>
  /\ NoGesture

\* App.tsx:197-201, and the effect of App.tsx:36-38
handleRedo ==
  /\ ~crashed
  /\ IF historyStep < Len(history) - 1
     THEN /\ historyStep' = historyStep + 1
          /\ elements' = history[historyStep' + 1]
     ELSE UNCHANGED <<historyStep, elements>>
  /\ UNCHANGED <<history, activeTool, selectedIds, viewTransform, contextMenu,
                 pasteElementsLength, nextId, crashed>>
  /\ NoGesture

\* App.tsx:203-211; the configuration menu is presentation only
handleSelectTool(tool) ==
  /\ ~crashed
  /\ IF tool = activeTool /\ (tool = "pen" \/ tool = "highlighter")
     THEN UNCHANGED <<activeTool, selectedIds>>
     ELSE /\ activeTool' = tool
          /\ selectedIds' = <<>>
  /\ UNCHANGED <<history, historyStep, elements, viewTransform, contextMenu,
                 pasteElementsLength, nextId, crashed>>
  /\ NoGesture

\* ------------------------------------------------------- pointer-down
\* a pointer-down that treats the right button as it treats the others
MouseDownBranchAnyButton(button, isBackground) ==
  IF resizeInfo.isResizing \/ rotateInfo.isRotating THEN "guard"
  ELSE IF activeTool = "select" /\ isBackground THEN "pan"
  ELSE IF isDrawingMode THEN "draw"
  ELSE IF activeTool # "select" THEN "create"
  ELSE IF isBackground THEN "deselect"
  ELSE "none"

\* the branch of App.tsx:483-566 a pointer-down takes
MouseDownBranch(button, isBackground) ==
  IF button = 2 THEN "return"
  ELSE IF resizeInfo.isResizing \/ rotateInfo.isRotating THEN "guard"
  ELSE IF activeTool = "select" /\ isBackground THEN "pan"
  ELSE IF isDrawingMode THEN "draw"
  ELSE IF activeTool # "select" THEN "create"
  ELSE IF isBackground THEN "deselect"
  ELSE "none"

\* App.tsx:483-566; e.button, e.clientX/Y, and whether e.target is the
\* container or the main layer
handleMouseDown(button, p, isBackground) ==
  LET pos == getMousePos(p)
      branch == MouseDownBranch(button, isBackground)
      newId == Uuids[nextId + 1]
  IN
  /\ ~crashed
  /\ branch \in {"draw", "create"} => nextId < MaxIds
  /\ contextMenu' = IF button # 2 /\ contextMenu.isOpen
                    THEN MenuClosed
                    ELSE contextMenu
  /\ isPanning' = IF branch = "pan" THEN TRUE ELSE isPanning
  /\ panStart' = IF branch = "pan" THEN Pt(p.x, p.y) ELSE panStart
  /\ selectedIds' = IF branch \in {"pan", "deselect"} THEN <<>>
                    ELSE IF branch = "create" THEN <<newId>>
                    ELSE selectedIds
  /\ isDrawing' = IF branch = "draw" THEN TRUE ELSE isDrawing
  /\ creationStart' = IF branch = "create" THEN pos ELSE creationStart
  /\ elements' = IF branch = "draw"
                 THEN Append(elements, NewPathElement(newId, pos))
                 ELSE IF branch = "create"
                 THEN Append(elements, NewShapeElement(newId, pos))
                 ELSE elements
  /\ nextId' = IF branch \in {"draw", "create"} THEN nextId + 1 ELSE nextId
  /\ UNCHANGED <<history, historyStep, activeTool, viewTransform, dragInfo,
                 resizeInfo, rotateInfo, pasteElementsLength, crashed>>

\* App.tsx:740-756; the menu's screen position is presentation only
handleContextMenu(elementId) ==
  /\ ~crashed
  /\ IF isDrawingMode
     THEN UNCHANGED <<selectedIds, contextMenu>>
     ELSE LET retarget == elementId # NullId /\ ~Includes(selectedIds, elementId)
          IN /\ selectedIds' = IF retarget THEN <<elementId>> ELSE selectedIds
             /\ contextMenu' =
                  [isOpen |-> TRUE,
                   selectedIds |-> IF retarget THEN <<elementId>> ELSE selectedIds]
  /\ UNCHANGED <<history, historyStep, elements, activeTool, viewTransform,
                 pasteElementsLength, nextId, crashed>>
  /\ NoGesture

\* a plain click that always replaces the selection by the element clicked
NewSelectedIdsCollapse(id, shiftKey) ==
  IF shiftKey
  THEN IF Includes(selectedIds, id)
       THEN SelectSeq(selectedIds, LAMBDA selectedId : selectedId # id)
       ELSE Append(selectedIds, id)
  ELSE <<id>>

\* App.tsx:770-783: the selection a press on element id leaves
NewSelectedIds(id, shiftKey) ==
  IF shiftKey
  THEN IF Includes(selectedIds, id)
       THEN SelectSeq(selectedIds, LAMBDA selectedId : selectedId # id)
       ELSE Append(selectedIds, id)
  ELSE IF ~Includes(selectedIds, id) THEN <<id>> ELSE selectedIds

\* App.tsx:758-799; it stops the event, so handleMouseDown does not run
handleElementSelect(id, button, p, shiftKey) ==
  IF button = 2
  THEN IF ~isDrawingMode THEN handleContextMenu(id)
       ELSE /\ ~crashed
            /\ UNCHANGED <<history, historyStep, elements, activeTool,
                           selectedIds, viewTransform, contextMenu,
                           pasteElementsLength, nextId, crashed>>
            /\ NoGesture
  ELSE
    /\ ~crashed
    /\ IF ~isDrawingMode /\ activeTool = "select"
       THEN LET newSelectedIds == NewSelectedIds(id, shiftKey)
                pos == getMousePos(p)
                relevantElements ==
                  SelectSeq(elements, LAMBDA el : Includes(newSelectedIds, el.id))
            IN /\ selectedIds' = newSelectedIds
               /\ dragInfo' =
                    [isDragging |-> TRUE, startX |-> pos.x, startY |-> pos.y,
                     initialPositions |->
                       Map(relevantElements,
                           LAMBDA el : [id |-> el.id, x |-> el.x, y |-> el.y])]
       ELSE UNCHANGED <<selectedIds, dragInfo>>
    /\ UNCHANGED <<history, historyStep, elements, activeTool, viewTransform,
                   isPanning, panStart, creationStart, resizeInfo, rotateInfo,
                   isDrawing, contextMenu, pasteElementsLength, nextId, crashed>>

\* App.tsx:801-817
handleResizeStart(direction, p) ==
  LET pos == getMousePos(p)
      element == IF Len(selectedIds) = 1
                 THEN Find(elements, LAMBDA el : el.id = selectedIds[1])
                 ELSE Undefined
  IN
  /\ ~crashed
  /\ IF Len(selectedIds) = 1 /\ element # Undefined
        /\ Truthy(element, "width") /\ Truthy(element, "height")
     THEN resizeInfo' =
            [isResizing |-> TRUE, handle |-> direction,
             startX |-> pos.x, startY |-> pos.y,
             initialX |-> element.x, initialY |-> element.y,
             initialWidth |-> element.width, initialHeight |-> element.height]
     ELSE UNCHANGED resizeInfo
  /\ UNCHANGED <<history, historyStep, elements, activeTool, selectedIds,
                 viewTransform, isPanning, panStart, creationStart, dragInfo,
                 rotateInfo, isDrawing, contextMenu, pasteElementsLength,
                 nextId, crashed>>

\* App.tsx:819-835
handleRotateStart(p) ==
  LET pos == getMousePos(p)
      element == IF Len(selectedIds) = 1
                 THEN Find(elements, LAMBDA el : el.id = selectedIds[1])
                 ELSE Undefined
  IN
  /\ ~crashed
  /\ IF Len(selectedIds) = 1 /\ element # Undefined
        /\ Truthy(element, "width") /\ Truthy(element, "height")
     THEN rotateInfo' =
            [isRotating |-> TRUE, startX |-> pos.x, startY |-> pos.y,
             initialRotation |-> OrElse(element, "rotation", 0),
             centerX |-> element.x + element.width \div 2,
             centerY |-> element.y + element.height \div 2]
     ELSE UNCHANGED rotateInfo
  /\ UNCHANGED <<history, historyStep, elements, activeTool, selectedIds,
                 viewTransform, isPanning, panStart, creationStart, dragInfo,
                 resizeInfo, isDrawing, contextMenu, pasteElementsLength,
                 nextId, crashed>>

\* ------------------------------------------------------- pointer-move

\* h?.includes(c) for a resize handle h and a compass letter c
HandleIncludes(h, c) ==
  CASE c = "n" -> h \in {"n", "nw", "ne"}
    [] c = "s" -> h \in {"s", "sw", "se"}
    [] c = "e" -> h \in {"e", "ne", "se"}
    [] c = "w" -> h \in {"w", "nw", "sw"}

\* a resize that floors the size and lets x and y follow the pointer
ResizedElementNoAnchor(el, pos) ==
  LET dx == pos.x - resizeInfo.startX
      dy == pos.y - resizeInfo.startY
      h == resizeInfo.handle
      width1 == resizeInfo.initialWidth
                  + (IF HandleIncludes(h, "e") THEN dx ELSE 0)
                  - (IF HandleIncludes(h, "w") THEN dx ELSE 0)
      x1 == resizeInfo.initialX + (IF HandleIncludes(h, "w") THEN dx ELSE 0)
      height1 == resizeInfo.initialHeight
                  + (IF HandleIncludes(h, "s") THEN dy ELSE 0)
                  - (IF HandleIncludes(h, "n") THEN dy ELSE 0)
      y1 == resizeInfo.initialY + (IF HandleIncludes(h, "n") THEN dy ELSE 0)
  IN With(el, [x |-> x1, y |-> y1,
               width |-> Max2(width1, 20), height |-> Max2(height1, 20)])

\* App.tsx:598-625, the element a resize move writes
ResizedElement(el, pos) ==
  LET dx == pos.x - resizeInfo.startX
      dy == pos.y - resizeInfo.startY
      h == resizeInfo.handle
      width1 == resizeInfo.initialWidth
                  + (IF HandleIncludes(h, "e") THEN dx ELSE 0)
                  - (IF HandleIncludes(h, "w") THEN dx ELSE 0)
      x1 == resizeInfo.initialX + (IF HandleIncludes(h, "w") THEN dx ELSE 0)
      height1 == resizeInfo.initialHeight
                  + (IF HandleIncludes(h, "s") THEN dy ELSE 0)
                  - (IF HandleIncludes(h, "n") THEN dy ELSE 0)
      y1 == resizeInfo.initialY + (IF HandleIncludes(h, "n") THEN dy ELSE 0)
      x2 == IF width1 < 20 /\ HandleIncludes(h, "w")
            THEN resizeInfo.initialX + resizeInfo.initialWidth - 20 ELSE x1
      y2 == IF height1 < 20 /\ HandleIncludes(h, "n")
            THEN resizeInfo.initialY + resizeInfo.initialHeight - 20 ELSE y1
  IN With(el, [x |-> x2, y |-> y2,
               width |-> Max2(width1, 20), height |-> Max2(height1, 20)])

\* App.tsx:634-670, the element a drag-to-create move writes
CreatedElement(el, start, current, shiftKey) ==
  IF el.type = "line" \/ el.type = "arrow"
  THEN LET dx == current.x - start.x
           dy == current.y - start.y
           length == Sqrt(dx * dx + dy * dy)
           angle == Atan2Deg(dy, dx)
           midX == (start.x + current.x) \div 2
           midY == (start.y + current.y) \div 2
           height == 20
       IN With(el, [width |-> Max2(20, length), height |-> height,
                    x |-> midX - Max2(20, length) \div 2,
                    y |-> midY - height \div 2,
                    rotation |-> angle])
  ELSE LET minX == Min2(start.x, current.x)
           minY == Min2(start.y, current.y)
           w == Abs(current.x - start.x)
           h == Abs(current.y - start.y)
           maxDim == Max2(w, h)
       IN With(el, [x |-> minX, y |-> minY,
                    width |-> IF shiftKey THEN maxDim ELSE w,
                    height |-> IF shiftKey THEN maxDim ELSE h])

\* App.tsx:675-689, the updater of a freehand move (prev is not empty)
DrawnElements(prev, pos) ==
  LET lastEl == prev[Len(prev)]
  IN IF ~Has(lastEl, "points") THEN prev
     ELSE LET newPoints == Append(lastEl.points, pos)
              padding == OrElse(lastEl, "strokeWidth", 5) * 2
              newWidth == Max2(OrElse(lastEl, "width", 0), pos.x + padding)
              newHeight == Max2(OrElse(lastEl, "height", 0), pos.y + padding)
          IN Map(prev, LAMBDA el :
                   IF el.id = lastEl.id
                   THEN With(el, [points |-> newPoints, width |-> newWidth,
                                  height |-> newHeight])
                   ELSE el)

\* App.tsx:697-703, the elements a drag move writes
\* a drag that adds the delta to the current position of the element
DraggedElementsIncremental(prev, pos) ==
  LET dx == pos.x - dragInfo.startX
      dy == pos.y - dragInfo.startY
  IN Map(prev, LAMBDA el :
       LET initialPos == Find(dragInfo.initialPositions, LAMBDA q : q.id = el.id)
       IN IF initialPos # Undefined
          THEN With(el, [x |-> el.x + dx, y |-> el.y + dy])
          ELSE el)

DraggedElements(prev, pos) ==
  LET dx == pos.x - dragInfo.startX
      dy == pos.y - dragInfo.startY
  IN Map(prev, LAMBDA el :
       LET initialPos == Find(dragInfo.initialPositions, LAMBDA q : q.id = el.id)
       IN IF initialPos # Undefined
          THEN With(el, [x |-> initialPos.x + dx, y |-> initialPos.y + dy])
          ELSE el)

\* the branch of App.tsx:571-704 a pointer-move takes
MouseMoveBranch ==
  IF isPanning THEN "pan"
  ELSE IF rotateInfo.isRotating /\ Len(selectedIds) = 1 THEN "rotate"
  ELSE IF resizeInfo.isResizing /\ Len(selectedIds) = 1 THEN "resize"
  ELSE IF creationStart # Null /\ Len(selectedIds) = 1 THEN "create"
  ELSE IF isDrawing THEN "draw"
  ELSE IF dragInfo.isDragging /\ Len(dragInfo.initialPositions) > 0
  THEN "drag"
  ELSE "none"

\* App.tsx:678, prev[prev.length - 1].points of an empty store
MouseMoveThrows == MouseMoveBranch = "draw" /\ Len(elements) = 0

\* App.tsx:571-577, the view a pointer-move at the client position p leaves
MovedView(p) ==
  IF MouseMoveBranch = "pan"
  THEN [viewTransform EXCEPT !.x = @ + (p.x - panStart.x),
                             !.y = @ + (p.y - panStart.y)]
  ELSE viewTransform

\* App.tsx:580-704, the elements a pointer-move at the client position p
\* leaves
MovedElements(p, shiftKey) ==
  LET pos == getMousePos(p)
      branch == MouseMoveBranch
      angle == LET raw == Atan2Deg(pos.y - rotateInfo.centerY,
                                   pos.x - rotateInfo.centerX) + 90
               IN IF shiftKey
                  THEN RoundTo15(Atan2HalfDeg(pos.y - rotateInfo.centerY,
                                              pos.x - rotateInfo.centerX) + 180)
                  ELSE raw
  IN CASE branch = "rotate" ->
            Map(elements, LAMBDA el :
                  IF el.id = selectedIds[1]
                  THEN With(el, [rotation |-> angle]) ELSE el)
       [] branch = "resize" ->
            Map(elements, LAMBDA el :
                  IF el.id # selectedIds[1] THEN el
                  ELSE ResizedElement(el, pos))
       [] branch = "create" ->
            Map(elements, LAMBDA el :
                  IF el.id # selectedIds[1] THEN el
                  ELSE CreatedElement(el, creationStart, pos, shiftKey))
       [] branch = "draw" /\ ~MouseMoveThrows -> DrawnElements(elements, pos)
       [] branch = "drag" -> DraggedElements(elements, pos)
       [] OTHER -> elements

\* a pan move that leaves panStart at the position of the pointer-down
handleMouseMoveKeepsPanStart(p, shiftKey) ==
  /\ ~crashed
  /\ MouseMoveBranch = "pan"
       => Abs(MovedView(p).x) <= MaxPan /\ Abs(MovedView(p).y) <= MaxPan
  /\ MouseMoveBranch = "draw" /\ ~MouseMoveThrows
       /\ Has(elements[Len(elements)], "points")
       => Len(elements[Len(elements)].points) < MaxPoints
  /\ crashed' = MouseMoveThrows
  /\ viewTransform' = MovedView(p)
  /\ pasteElementsLength' =
       IF MouseMoveBranch = "pan" THEN Len(elements) ELSE pasteElementsLength
  /\ SetElements(MovedElements(p, shiftKey))
  /\ UNCHANGED <<activeTool, selectedIds, isPanning, panStart,
                 creationStart, dragInfo, resizeInfo, rotateInfo, isDrawing,
                 contextMenu, nextId>>

\* App.tsx:568-705
handleMouseMove(p, shiftKey) ==
  LET branch == MouseMoveBranch
      newView == MovedView(p)
      throws == MouseMoveThrows
  IN
  /\ ~crashed
  /\ branch = "pan" => Abs(newView.x) <= MaxPan /\ Abs(newView.y) <= MaxPan
  /\ branch = "draw" /\ ~throws /\ Has(elements[Len(elements)], "points")
       => Len(elements[Len(elements)].points) < MaxPoints
  /\ crashed' = throws
  /\ viewTransform' = newView
  /\ panStart' = IF branch = "pan" THEN Pt(p.x, p.y) ELSE panStart
  /\ pasteElementsLength' =
       IF branch = "pan" THEN Len(elements) ELSE pasteElementsLength
  /\ SetElements(MovedElements(p, shiftKey))
  /\ UNCHANGED <<activeTool, selectedIds, isPanning,
                 creationStart, dragInfo, resizeInfo, rotateInfo, isDrawing,
                 contextMenu, nextId>>

\* --------------------------------------------------------- pointer-up
\* App.tsx:720, the degenerate-click test of the creation branch
\* the chain of App.tsx:708-729 with the rotation left out of its last test
MouseUpBranchNoRotate ==
  IF isDrawing THEN "draw"
  ELSE IF creationStart # Null /\ Len(selectedIds) = 1 THEN "create"
  ELSE IF dragInfo.isDragging \/ resizeInfo.isResizing THEN "commit"
  ELSE "none"

\* App.tsx:708, 717 and 728: the branch handleMouseUp takes
MouseUpBranch ==
  IF isDrawing THEN "draw"
  ELSE IF creationStart # Null /\ Len(selectedIds) = 1 THEN "create"
  ELSE IF dragInfo.isDragging \/ resizeInfo.isResizing
          \/ rotateInfo.isRotating THEN "commit"
  ELSE "none"

IsDegenerate(el) ==
  /\ el # Undefined
  /\ Truthy(el, "width") /\ el.width < 5
  /\ Truthy(el, "height") /\ el.height < 5

\* App.tsx:707-738; the container's onMouseUp and onMouseLeave.
\* The code clears isDragging, isResizing and isRotating and keeps the other
\* fields of an ended gesture (and panStart, and a closed menu's selectedIds);
\* no handler reads them before the next gesture start overwrites them, so
\* the state keeps the initial records in their place.
handleMouseUp ==
  LET branch == MouseUpBranch
      throws == branch = "draw" /\ Len(elements) = 0
      lastEl == elements[Len(elements)]
      created == Find(elements, LAMBDA e : e.id = selectedIds[1])
  IN
  /\ ~crashed
  /\ crashed' = throws
  /\ IF throws
     THEN UNCHANGED <<history, historyStep, elements, selectedIds, isDrawing,
                      isPanning, panStart, creationStart, dragInfo, resizeInfo,
                      rotateInfo>>
     ELSE
       /\ CASE branch = "draw" /\ Has(lastEl, "points") ->
                 /\ Commit(Map(elements, LAMBDA el :
                              IF el.id = lastEl.id THEN normalizeDrawing(lastEl)
                              ELSE el))
                 /\ UNCHANGED selectedIds
            [] branch = "create" /\ IsDegenerate(created) ->
                 /\ SetElements(SelectSeq(elements, LAMBDA e : e.id # selectedIds[1]))
                 /\ selectedIds' = <<>>
            [] branch = "create" /\ ~IsDegenerate(created) ->
                 /\ Commit(elements)
                 /\ UNCHANGED selectedIds
            [] branch = "commit" ->
                 /\ Commit(elements)
                 /\ UNCHANGED selectedIds
            [] OTHER ->
                 UNCHANGED <<history, historyStep, elements, selectedIds>>
       /\ isDrawing' = FALSE
       /\ isPanning' = FALSE
       /\ creationStart' = Null
       /\ dragInfo' = NoDrag
       /\ resizeInfo' = NoResize
       /\ rotateInfo' = NoRotate
       /\ panStart' = Pt(0, 0)
  /\ UNCHANGED <<activeTool, viewTransform, contextMenu,
                 pasteElementsLength, nextId>>

\* ------------------------------------------------- keyboard and paste
\* a Delete key that removes the selected elements and keeps their ids selected
handleKeyDownDeleteKeepSelection ==
  /\ ~crashed
  /\ IF Len(selectedIds) > 0
     THEN Commit(SelectSeq(elements, LAMBDA el : ~Includes(selectedIds, el.id)))
     ELSE UNCHANGED <<history, historyStep, elements>>
  /\ UNCHANGED <<activeTool, selectedIds, viewTransform, contextMenu,
                 pasteElementsLength, nextId, crashed>>
  /\ NoGesture

\* App.tsx:922-933, Delete / Backspace with no text input focused
handleKeyDownDelete ==
  /\ ~crashed
  /\ IF Len(selectedIds) > 0
     THEN /\ Commit(SelectSeq(elements, LAMBDA el : ~Includes(selectedIds, el.id)))
          /\ selectedIds' = <<>>
     ELSE UNCHANGED <<history, historyStep, elements, selectedIds>>
  /\ UNCHANGED <<activeTool, viewTransform, contextMenu, pasteElementsLength,
                 nextId, crashed>>
  /\ NoGesture

\* App.tsx:837-839
handleContentChange(id, newContent) ==
  /\ ~crashed
  /\ SetElements(Map(elements, LAMBDA el :
                       IF el.id = id THEN With(el, [content |-> newContent])
                       ELSE el))
  /\ UNCHANGED <<activeTool, selectedIds, viewTransform, contextMenu,
                 pasteElementsLength, nextId, crashed>>
  /\ NoGesture

\* App.tsx:868-878, the window's paste event (the command palette is closed)
pasteListener(text) ==
  /\ ~crashed
  /\ IF text # ""
     THEN /\ nextId < MaxIds
          /\ SetElements(Append(elements,
                createTextElementAtCenter(Uuids[nextId + 1], text,
                                          pasteElementsLength)))
          /\ nextId' = nextId + 1
     ELSE UNCHANGED <<history, historyStep, elements, nextId>>
  /\ UNCHANGED <<activeTool, selectedIds, viewTransform, contextMenu,
                 pasteElementsLength, crashed>>
  /\ NoGesture

\* ------------------------------------- the clipboard and the summary
\* the messages of alert(), App.tsx:283, 289 and 299
ClipboardAlert ==
  "Unable to access clipboard directly. Please use Ctrl+V (or Cmd+V) to paste."
EmptyAlert == "Canvas is empty! Add some notes first."
SummaryAlert == "Failed to summarize board. Check console or API Key."
\* what summarizeBoard returns, geminiService.ts:52
Summaries == {"Could not generate summary.", "# Ideas"}
\* calls that may await one collaborator at a time
MaxPending == 2

RemoveAt(s, i) == SubSeq(s, 1, i - 1) \o SubSeq(s, i + 1, Len(s))

\* App.tsx:272-274, handlePaste up to its await: the call keeps the
\* elements, viewTransform, history and historyStep of its closure
handlePaste ==
  /\ ~crashed
  /\ Len(clipboardReads) < MaxPending
  /\ clipboardReads' = Append(clipboardReads,
        [elements |-> elements, viewTransform |-> viewTransform,
         history |-> history, historyStep |-> historyStep])
  /\ UNCHANGED <<history, historyStep, elements, activeTool, selectedIds,
                 viewTransform, pasteElementsLength, nextId, crashed,
                 summarizeCalls, isProcessingAI, summary, isSummaryOpen,
                 alerted>>
  /\ NoGesture

\* a rejected clipboard read that pushes the collection onto the history
\* before its alert
handlePasteRejectedCommits(i) ==
  /\ ~crashed
  /\ clipboardReads' = RemoveAt(clipboardReads, i)
  /\ alerted' = ClipboardAlert
  /\ Commit(clipboardReads[i].elements)
  /\ UNCHANGED <<activeTool, selectedIds, viewTransform,
                 contextMenu, pasteElementsLength, nextId, crashed,
                 summarizeCalls, isProcessingAI, summary, isSummaryOpen>>
  /\ NoGesture

\* App.tsx:281-284, readText() of the i-th call was rejected
handlePasteRejected(i) ==
  /\ ~crashed
  /\ clipboardReads' = RemoveAt(clipboardReads, i)
  /\ alerted' = ClipboardAlert
  /\ UNCHANGED <<history, historyStep, elements, activeTool, selectedIds,
                 viewTransform, contextMenu, pasteElementsLength, nextId,
                 crashed, summarizeCalls, isProcessingAI, summary,
                 isSummaryOpen>>
  /\ NoGesture

\* App.tsx:274-280, readText() of the i-th call resolved with text;
\* setElements and addToHistory run in the closure of the call, and the
\* effect of App.tsx:36-38 follows
handlePasteResolved(i, text) ==
  LET closure == clipboardReads[i]
      newEl == createTextElementAtCenterIn(closure.viewTransform,
                 Uuids[nextId + 1], text, Len(closure.elements))
      newEls == Append(closure.elements, newEl)
      newHistory == Append(SubSeq(closure.history, 1, closure.historyStep + 1),
                           newEls)
  IN
  /\ ~crashed
  /\ clipboardReads' = RemoveAt(clipboardReads, i)
  /\ IF text # ""
     THEN /\ nextId < MaxIds
          /\ Len(newHistory) <= MaxHistory
          /\ history' = newHistory
          /\ historyStep' = Len(history') - 1
          /\ elements' = history'[historyStep' + 1]
          /\ nextId' = nextId + 1
     ELSE UNCHANGED <<history, historyStep, elements, nextId>>
  /\ UNCHANGED <<activeTool, selectedIds, viewTransform, contextMenu,
                 pasteElementsLength, crashed, summarizeCalls, isProcessingAI,
                 summary, isSummaryOpen, alerted>>
  /\ NoGesture

\* App.tsx:287-293, handleSummarize up to its await
handleSummarize ==
  /\ ~crashed
  /\ IF Len(elements) = 0
     THEN /\ alerted' = EmptyAlert
          /\ UNCHANGED <<summarizeCalls, isProcessingAI>>
     ELSE /\ summarizeCalls < MaxPending
          /\ summarizeCalls' = summarizeCalls + 1
          /\ isProcessingAI' = TRUE
          /\ UNCHANGED alerted
  /\ UNCHANGED <<history, historyStep, elements, activeTool, selectedIds,
                 viewTransform, contextMenu, pasteElementsLength, nextId,
                 crashed, clipboardReads, summary, isSummaryOpen>>
  /\ NoGesture

\* App.tsx:294-296 and 300-302, summarizeBoard resolved with result
handleSummarizeResolved(result) ==
  /\ ~crashed
  /\ summarizeCalls > 0
  /\ summarizeCalls' = summarizeCalls - 1
  /\ summary' = result
  /\ isSummaryOpen' = TRUE
  /\ isProcessingAI' = FALSE
  /\ UNCHANGED <<history, historyStep, elements, activeTool, selectedIds,
                 viewTransform, contextMenu, pasteElementsLength, nextId,
                 crashed, clipboardReads, alerted>>
  /\ NoGesture

\* App.tsx:297-302, summarizeBoard threw (geminiService.ts:5-9, 53-55)
handleSummarizeRejected ==
  /\ ~crashed
  /\ summarizeCalls > 0
  /\ summarizeCalls' = summarizeCalls - 1
  /\ alerted' = SummaryAlert
  /\ isProcessingAI' = FALSE
  /\ UNCHANGED <<history, historyStep, elements, activeTool, selectedIds,
                 viewTransform, contextMenu, pasteElementsLength, nextId,
                 crashed, clipboardReads, summary, isSummaryOpen>>
  /\ NoGesture

\* App.tsx:1040, onClose of the summary
CloseSummary ==
  /\ ~crashed
  /\ isSummaryOpen' = FALSE
  /\ UNCHANGED <<history, historyStep, elements, activeTool, selectedIds,
                 viewTransform, contextMenu, pasteElementsLength, nextId,
                 crashed, clipboardReads, summarizeCalls, isProcessingAI,
                 summary, alerted>>
  /\ NoGesture

\* ------------------------------------------------------------ commands
\* Array.prototype.sort((a, b) => a.zIndex - b.zIndex), a stable sort
InsertByZ(sorted, e) ==
  LET k == Cardinality({i \in 1..Len(sorted) : sorted[i].zIndex <= e.zIndex})
  IN SubSeq(sorted, 1, k) \o <<e>> \o SubSeq(sorted, k + 1, Len(sorted))

\* a reordering step that leaves the collection in the order it was
KeepOrder(s) == s

RECURSIVE SortByZ(_)
SortByZ(s) ==
  IF Len(s) <= 1 THEN s
  ELSE InsertByZ(SortByZ(SubSeq(s, 1, Len(s) - 1)), s[Len(s)])

\* App.tsx:371-375
TargetIds(elementId) ==
  IF elementId # NullId /\ ~Includes(selectedIds, elementId)
  THEN <<elementId>>
  ELSE selectedIds

\* duplicates that keep the id of the element they copy
RECURSIVE DuplicatesSameId(_, _)
DuplicatesSameId(targetIds, soFar) ==
  IF targetIds = <<>> THEN soFar
  ELSE LET el == Find(elements, LAMBDA e : e.id = Head(targetIds))
       IN IF el = Undefined THEN DuplicatesSameId(Tail(targetIds), soFar)
          ELSE DuplicatesSameId(Tail(targetIds),
                 Append(soFar,
                   With(el, [x |-> el.x + 20, y |-> el.y + 20,
                             zIndex |-> Len(elements) + Len(soFar) + 1])))

\* duplicates that lie on the element they copy
RECURSIVE DuplicatesInPlace(_, _)
DuplicatesInPlace(targetIds, soFar) ==
  IF targetIds = <<>> THEN soFar
  ELSE LET el == Find(elements, LAMBDA e : e.id = Head(targetIds))
       IN IF el = Undefined THEN DuplicatesInPlace(Tail(targetIds), soFar)
          ELSE DuplicatesInPlace(Tail(targetIds),
                 Append(soFar,
                   With(el, [id |-> Uuids[nextId + Len(soFar) + 1],
                             zIndex |-> Len(elements) + Len(soFar) + 1])))

\* App.tsx:391-403: the duplicates of the targets found, appended to soFar
RECURSIVE Duplicates(_, _)
Duplicates(targetIds, soFar) ==
  IF targetIds = <<>> THEN soFar
  ELSE LET el == Find(elements, LAMBDA e : e.id = Head(targetIds))
       IN IF el = Undefined THEN Duplicates(Tail(targetIds), soFar)
          ELSE Duplicates(Tail(targetIds),
                 Append(soFar,
                   With(el, [id |-> Uuids[nextId + Len(soFar) + 1],
                             x |-> el.x + 20, y |-> el.y + 20,
                             zIndex |-> Len(elements) + Len(soFar) + 1])))

\* Math.max(...newElements.map(e => e.zIndex), 0)
MaxZ(els) == SeqMax(<<0>> \o Map(els, LAMBDA e : e.zIndex))
\* Math.min(...newElements.map(e => e.zIndex), 0)
MinZ(els) == SeqMin(<<0>> \o Map(els, LAMBDA e : e.zIndex))

\* the alignments of the toolbar and, as align-<type>, of the context menu
AlignTypes == {"left", "center", "right", "top", "middle", "bottom"}
AlignActions == {"align-left", "align-center", "align-right",
                 "align-top", "align-middle", "align-bottom"}
\* action.replace('align-', ''), App.tsx:379
AlignType(action) ==
  CASE action = "align-left" -> "left"
    [] action = "align-center" -> "center"
    [] action = "align-right" -> "right"
    [] action = "align-top" -> "top"
    [] action = "align-middle" -> "middle"
    [] action = "align-bottom" -> "bottom"
    [] OTHER -> action

\* bounds that are the box of the selected elements whatever their number
AlignBoundsOfSelection(selectedEls) ==
  [minX |-> SeqMin(Map(selectedEls, LAMBDA el : el.x)),
   maxX |-> SeqMax(Map(selectedEls, LAMBDA el : el.x + OrElse(el, "width", 0))),
   minY |-> SeqMin(Map(selectedEls, LAMBDA el : el.y)),
   maxY |-> SeqMax(Map(selectedEls, LAMBDA el : el.y + OrElse(el, "height", 0)))]

\* App.tsx:311-340, bounds; selectedEls is not empty
AlignBounds(selectedEls) ==
  IF Len(selectedEls) = 1
  THEN LET viewW == ViewSize.width \div viewTransform.scale
           viewH == ViewSize.height \div viewTransform.scale
           viewX == (0 - viewTransform.x) \div viewTransform.scale
           viewY == (0 - viewTransform.y) \div viewTransform.scale
       IN [minX |-> viewX, maxX |-> viewX + viewW,
           minY |-> viewY, maxY |-> viewY + viewH]
  ELSE [minX |-> SeqMin(Map(selectedEls, LAMBDA el : el.x)),
        maxX |-> SeqMax(Map(selectedEls,
                            LAMBDA el : el.x + OrElse(el, "width", 0))),
        minY |-> SeqMin(Map(selectedEls, LAMBDA el : el.y)),
        maxY |-> SeqMax(Map(selectedEls,
                            LAMBDA el : el.y + OrElse(el, "height", 0)))]

\* an alignment that puts the left or top edge of the element where its
\* right edge, bottom edge or centre should be
AlignedElementByOrigin(el, type, bounds) ==
  LET centerX == (bounds.minX + bounds.maxX) \div 2
      centerY == (bounds.minY + bounds.maxY) \div 2
  IN With(el, [x |-> CASE type = "left" -> bounds.minX
                       [] type = "center" -> centerX
                       [] type = "right" -> bounds.maxX
                       [] OTHER -> el.x,
               y |-> CASE type = "top" -> bounds.minY
                       [] type = "middle" -> centerY
                       [] type = "bottom" -> bounds.maxY
                       [] OTHER -> el.y])

\* App.tsx:342-360, a selected element after the alignment
AlignedElement(el, type, bounds) ==
  LET centerX == (bounds.minX + bounds.maxX) \div 2
      centerY == (bounds.minY + bounds.maxY) \div 2
  IN With(el, [x |-> CASE type = "left" -> bounds.minX
                       [] type = "center" ->
                            centerX - OrElse(el, "width", 0) \div 2
                       [] type = "right" ->
                            bounds.maxX - OrElse(el, "width", 0)
                       [] OTHER -> el.x,
               y |-> CASE type = "top" -> bounds.minY
                       [] type = "middle" ->
                            centerY - OrElse(el, "height", 0) \div 2
                       [] type = "bottom" ->
                            bounds.maxY - OrElse(el, "height", 0)
                       [] OTHER -> el.y])

\* App.tsx:305-364; the caller says what becomes of the context menu
handleAlign(type) ==
  LET selectedEls ==
        SelectSeq(elements, LAMBDA el : Includes(selectedIds, el.id))
      newElements ==
        Map(elements, LAMBDA el :
              IF ~Includes(selectedIds, el.id) THEN el
              ELSE AlignedElement(el, type, AlignBounds(selectedEls)))
  IN
  /\ ~crashed
  /\ IF Len(selectedIds) = 0 \/ Len(selectedEls) = 0
     THEN UNCHANGED <<history, historyStep, elements>>
     ELSE Commit(newElements)
  /\ UNCHANGED <<activeTool, selectedIds, viewTransform, pasteElementsLength,
                 nextId, crashed>>
  /\ NoGesture

\* App.tsx:366-430 for the alignments, delete, duplicate, front and back
handleContextMenuAction(action, elementId) ==
  IF action \in AlignActions THEN handleAlign(AlignType(action)) ELSE
  LET targetIds == TargetIds(elementId)
      duplicates == Duplicates(targetIds, <<>>)
      newElements ==
        CASE action = "delete" ->
               SelectSeq(elements, LAMBDA el : ~Includes(targetIds, el.id))
          [] action = "duplicate" -> elements \o duplicates
          [] action = "front" ->
               SortByZ(Map(elements, LAMBDA el :
                         IF Includes(targetIds, el.id)
                         THEN With(el, [zIndex |-> MaxZ(elements) + 1]) ELSE el))
          [] action = "back" ->
               SortByZ(Map(elements, LAMBDA el :
                         IF Includes(targetIds, el.id)
                         THEN With(el, [zIndex |-> MinZ(elements) - 1]) ELSE el))
          [] OTHER -> elements
  IN
  /\ ~crashed
  /\ action = "duplicate" => nextId + Len(duplicates) <= MaxIds
  /\ Commit(newElements)
  /\ selectedIds' = IF action = "delete" THEN <<>>
                    ELSE IF action = "duplicate"
                    THEN Map(duplicates, LAMBDA d : d.id)
                    ELSE selectedIds
  /\ nextId' = IF action = "duplicate" THEN nextId + Len(duplicates) ELSE nextId
  /\ UNCHANGED <<activeTool, viewTransform, pasteElementsLength, crashed>>
  /\ NoGesture

\* ContextMenu.tsx:38-42, a button of the open menu: the action, then onClose
ContextMenuHandleAction(action) ==
  /\ contextMenu.isOpen
  /\ Len(contextMenu.selectedIds) > 0
  /\ handleContextMenuAction(action, contextMenu.selectedIds[1])
  /\ contextMenu' = MenuClosed

\* App.tsx:958-961, the commands of the palette
PaletteAction(action) ==
  /\ Len(selectedIds) > 0
  /\ handleContextMenuAction(action,
        IF action = "duplicate" THEN selectedIds[1] ELSE NullId)
  /\ UNCHANGED contextMenu

\* App.tsx:1046 and ContextMenu.tsx:18-22, onClose
CloseContextMenu ==
  /\ ~crashed
  /\ contextMenu.isOpen
  /\ contextMenu' = MenuClosed
  /\ UNCHANGED <<history, historyStep, elements, activeTool, selectedIds,
                 viewTransform, pasteElementsLength, nextId, crashed>>
  /\ NoGesture

\* App.tsx:177-184, confirmed
handleClearCanvas ==
  /\ ~crashed
  /\ Commit(<<>>)
  /\ selectedIds' = <<>>
  /\ UNCHANGED <<activeTool, viewTransform, contextMenu, pasteElementsLength,
                 nextId, crashed>>
  /\ NoGesture

\* App.tsx:846-851, updates = {fillColor: hex}
handleElementUpdate(id, hex) ==
  /\ ~crashed
  /\ IF id = NullId
     THEN UNCHANGED <<history, historyStep, elements>>
     ELSE Commit(Map(elements, LAMBDA el :
                       IF el.id = id THEN With(el, [fillColor |-> hex]) ELSE el))
  /\ UNCHANGED <<activeTool, selectedIds, viewTransform, contextMenu,
                 pasteElementsLength, nextId, crashed>>
  /\ NoGesture

\* App.tsx:853-864
handleColorChange(color) ==
  /\ ~crashed
  /\ Commit(Map(elements, LAMBDA el :
                  IF Includes(selectedIds, el.id)
                  THEN IF el.type = "text" THEN With(el, [color |-> color])
                       ELSE With(el, [color |-> color, fillColor |-> color])
                  ELSE el))
  /\ UNCHANGED <<activeTool, selectedIds, viewTransform, contextMenu,
                 pasteElementsLength, nextId, crashed>>
  /\ NoGesture

\* -------------------------------------------------------------- events
\* BoardItem renders one box per element; in drawing mode its pointerEvents
\* are none (ContextMenu.tsx:618), so the pointer reaches the layer below
\* one more event is dispatched to its handler; undo and redo only move the
\* cursor inside the history there is, and are not counted
Tick ==
  /\ events < MaxEvents
  /\ events' = events + 1

\* the gestures whose state says they are in progress
Gestures ==
  {kind \in {"pan", "draw", "create", "drag", "resize", "rotate"} :
     CASE kind = "pan" -> isPanning
       [] kind = "draw" -> isDrawing
       [] kind = "create" -> creationStart # Null
       [] kind = "drag" -> dragInfo.isDragging
       [] kind = "resize" -> resizeInfo.isResizing
       [] kind = "rotate" -> rotateInfo.isRotating}

\* what the handler that has just run means for the observed gesture;
\* ev is "down", "move", "up", "tool", "paste" or the name of another event
TrackPointer(ev) ==
  pointer' =
    CASE ev = "up" ->
           [kind |-> "none", trace |-> pointer.trace, id |-> pointer.id,
            ended |-> pointer.kind, view |-> NoView, at |-> Pt(0, 0)]
      [] ev = "down" /\ Gestures = {} ->
           IF Cardinality(Gestures') = 1
           THEN LET kind == CHOOSE k \in Gestures' : TRUE
                IN [kind |-> kind, trace |-> "clean",
                    id |-> IF kind \in {"draw", "create"}
                           THEN elements'[Len(elements')].id ELSE NullId,
                    ended |-> "none",
                    view |-> IF kind = "pan" THEN viewTransform ELSE NoView,
                    at |-> IF kind = "pan" THEN panStart' ELSE Pt(0, 0)]
           ELSE AtRest
      [] ev = "move" /\ Gestures # {} -> pointer
      [] ev = "down" /\ Gestures # {} ->
           [pointer EXCEPT !.trace = IF @ \in {"clean", "presses"}
                                     THEN "presses" ELSE "other"]
      [] ev \in {"tool", "paste"} /\ Gestures # {} ->
           [pointer EXCEPT !.trace = IF @ = "other" THEN "other" ELSE "keys"]
      [] Gestures # {} -> [pointer EXCEPT !.trace = "other"]
      [] OTHER -> AtRest

Off == [phase |-> "off", n |-> 0, k |-> 0, last |-> <<>>]

\* commits are counted while no undo has run; then the undos, then the redos
\* ("commit", "undo", "redo"), or a commit made after the undos and the redo
\* that follows it ("branched", "redone")
TrackUndoRedo(ev) ==
  LET committed == /\ ev \notin {"undo", "redo"}
                   /\ <<history', historyStep'>> # <<history, historyStep>>
  IN undoRedo' =
       CASE undoRedo.phase = "commit" /\ committed ->
              [phase |-> "commit", n |-> undoRedo.n + 1, k |-> 0,
               last |-> elements']
         [] undoRedo.phase = "commit" /\ ev = "undo" ->
              IF undoRedo.n >= 1
              THEN [undoRedo EXCEPT !.phase = "undo", !.k = 1]
              ELSE Off
         [] undoRedo.phase = "commit" -> undoRedo
         [] undoRedo.phase = "undo" /\ ev = "undo" /\ undoRedo.k < undoRedo.n ->
              [undoRedo EXCEPT !.k = @ + 1]
         [] undoRedo.phase = "undo" /\ ev = "redo" /\ undoRedo.k = undoRedo.n ->
              [undoRedo EXCEPT !.phase = "redo", !.k = 1]
         [] undoRedo.phase = "redo" /\ ev = "redo" /\ undoRedo.k < undoRedo.n ->
              [undoRedo EXCEPT !.k = @ + 1]
         [] undoRedo.phase = "undo" /\ committed ->
              [undoRedo EXCEPT !.phase = "branched", !.last = elements']
         [] undoRedo.phase = "branched" /\ ev = "redo" ->
              [undoRedo EXCEPT !.phase = "redone"]
         [] OTHER -> Off

Track(ev) == TrackPointer(ev) /\ TrackUndoRedo(ev)

Clickable(id) == id \in Ids(elements) /\ ~isDrawingMode

\* ContextMenu.tsx:633, renderHandles
HandlesShown ==
  /\ ~isDrawingMode
  /\ Len(selectedIds) = 1
  /\ selectedIds[1] \in Ids(elements)

ElementType(id) == Find(elements, LAMBDA el : el.id = id).type

MouseDownBackground ==
  /\ Tick
  /\ \E button \in Buttons, p \in DownPts : handleMouseDown(button, p, TRUE)
  /\ Track("down")
  /\ UNCHANGED external

\* the contextmenu event on the container, App.tsx:992
ContextMenuBackground ==
  /\ Tick
  /\ handleContextMenu(NullId)
  /\ Track("menu")
  /\ UNCHANGED external

\* ContextMenu.tsx:693-696 and 867-868
MouseDownElement ==
  /\ Tick
  /\ \E id \in Ids(elements), button \in Buttons, p \in DownPts, shiftKey \in BOOLEAN :
    /\ Clickable(id)
    /\ handleElementSelect(id, button, p, shiftKey)
  /\ Track("down")
  /\ UNCHANGED external

\* ContextMenu.tsx:661-664
MouseDownResizeHandle ==
  /\ Tick
  /\ \E direction \in Handles, p \in DownPts :
    /\ HandlesShown
    /\ handleResizeStart(direction, p)
  /\ Track("down")
  /\ UNCHANGED external

\* ContextMenu.tsx:676-679
MouseDownRotateHandle ==
  /\ Tick
  /\ \E p \in DownPts :
    /\ HandlesShown
    /\ handleRotateStart(p)
  /\ Track("down")
  /\ UNCHANGED external

MouseMove ==
  /\ Tick
  /\ \E p \in Pts, shiftKey \in BOOLEAN : handleMouseMove(p, shiftKey)
  /\ Track("move")
  /\ UNCHANGED external

MouseUp ==
  /\ Tick
  /\ handleMouseUp
  /\ Track("up")
  /\ UNCHANGED external

\* App.tsx:990, onMouseLeave={handleMouseUp}
MouseLeave ==
  /\ Tick
  /\ handleMouseUp
  /\ Track("up")
  /\ UNCHANGED external

\* App.tsx:899-908 and the toolbar buttons
Undo ==
  /\ handleUndo
  /\ Track("undo")
  /\ UNCHANGED external
  /\ UNCHANGED events

Redo ==
  /\ handleRedo
  /\ Track("redo")
  /\ UNCHANGED external
  /\ UNCHANGED events

\* App.tsx:912-921 and the toolbar
SelectTool ==
  /\ Tick
  /\ \E tool \in Tools : handleSelectTool(tool)
  /\ Track("tool")
  /\ UNCHANGED external

KeyDelete ==
  /\ Tick
  /\ handleKeyDownDelete
  /\ Track("delete")
  /\ UNCHANGED external

Paste ==
  /\ Tick
  /\ \E text \in Texts : pasteListener(text)
  /\ Track("paste")
  /\ UNCHANGED external

\* ContextMenu.tsx:627-629, typing into a text or sticky element
ContentChange ==
  /\ Tick
  /\ \E id \in Ids(elements), newContent \in NewContents :
    /\ Clickable(id)
    /\ ElementType(id) \in {"text", "sticky"}
    /\ handleContentChange(id, newContent)
  /\ Track("edit")
  /\ UNCHANGED external

MenuAction ==
  /\ Tick
  /\ \E action \in MenuActions : ContextMenuHandleAction(action)
  /\ Track("command")
  /\ UNCHANGED external

PaletteCommand ==
  /\ Tick
  /\ \E action \in MenuActions : PaletteAction(action)
  /\ Track("command")
  /\ UNCHANGED external

ClearCanvas ==
  /\ Tick
  /\ handleClearCanvas
  /\ Track("clear")
  /\ UNCHANGED external

MenuClose ==
  /\ Tick
  /\ CloseContextMenu
  /\ Track("menu")
  /\ UNCHANGED external

\* ContextMenu.tsx:340: the fill swatch of the one selected element
ToolbarFill ==
  /\ Tick
  /\ \E hex \in FillColors :
    LET selectedElements ==
          SelectSeq(elements, LAMBDA el : Includes(selectedIds, el.id))
    IN /\ Len(selectedElements) = 1
       /\ \/ /\ selectedElements[1].type = "sticky"
             /\ handleColorChange(hex)
          \/ /\ selectedElements[1].type \in ShapeTypes
             /\ handleElementUpdate(selectedElements[1].id, hex)
  /\ Track("fill")
  /\ UNCHANGED external

Next ==
  \/ MouseDownBackground
  \/ ContextMenuBackground
  \/ MouseDownElement
  \/ MouseDownResizeHandle
  \/ MouseDownRotateHandle
  \/ MouseMove
  \/ MouseUp
  \/ MouseLeave
  \/ Undo
  \/ Redo
  \/ SelectTool
  \/ KeyDelete
  \/ Paste
  \/ ContentChange
  \/ MenuAction
  \/ PaletteCommand
  \/ MenuClose
  \/ ClearCanvas
  \/ ToolbarFill

Spec == Init /\ [][Next]_vars

\* ------------------------------------------- resizing a drawn rectangle
\* the eight handles renderHandles shows, ContextMenu.tsx:635-642
AllHandles == {"nw", "n", "ne", "w", "e", "sw", "s", "se"}
\* width and height of the rectangle, as the drag that drew it left them
BoxSizes == {<<100, 100>>, <<30, 40>>, <<10, 30>>}
\* clientX, clientY of the press on a handle and of the moves after it
HandlePts == {Pt(200, 200)}
ResizePts == {Pt(0, 0), Pt(200, 200), Pt(400, 200), Pt(200, 400),
              Pt(400, 400), Pt(150, 210)}

\* the rectangle of App.tsx:539-555 after the drag that drew it
BoxElement(w, h) ==
  [id |-> "a", type |-> "rect", x |-> 100, y |-> 100, zIndex |-> 1,
   width |-> w, height |-> h, color |-> "transparent", strokeWidth |-> 3,
   fontSize |-> 18, rotation |-> 0, strokeColor |-> "#000000",
   fillColor |-> "transparent"]

\* the state after the rect tool has drawn one rectangle and committed it
InitResize ==
  \E size \in BoxSizes :
    /\ elements = <<BoxElement(size[1], size[2])>>
    /\ history = << <<>>, elements >>
    /\ historyStep = 1
    /\ activeTool = "rect"
    /\ selectedIds = <<"a">>
    /\ viewTransform = [x |-> 0, y |-> 0, scale |-> 1]
    /\ isPanning = FALSE
    /\ panStart = Pt(0, 0)
    /\ creationStart = Null
    /\ dragInfo = NoDrag
    /\ resizeInfo = NoResize
    /\ rotateInfo = NoRotate
    /\ isDrawing = FALSE
    /\ contextMenu = MenuClosed
    /\ pasteElementsLength = 0
    /\ nextId = 1
    /\ crashed = FALSE
    /\ events = 0
    /\ pointer = AtRest
    /\ undoRedo = [phase |-> "commit", n |-> 1, k |-> 0, last |-> elements]
    /\ ExternalIdle

ResizePress ==
  /\ Tick
  /\ \E direction \in AllHandles, p \in HandlePts :
       /\ HandlesShown
       /\ handleResizeStart(direction, p)
  /\ Track("down")
  /\ UNCHANGED external

ResizeMove ==
  /\ Tick
  /\ \E p \in ResizePts : handleMouseMove(p, FALSE)
  /\ Track("move")
  /\ UNCHANGED external

NextResize ==
  \/ ResizePress
  \/ ResizeMove
  \/ MouseUp

SpecResize == InitResize /\ [][NextResize]_vars

\* ------------------------------------------------ zooming an empty board
\* e.deltaY of the wheel events: the scale doubles, halves, is multiplied by
\* 10 (and meets the upper limit) or by -1 (and meets the lower limit)
WheelDeltas == {-1000, 500, -9000, 2000}
\* wheel events a zooming session may hold
MaxZooms == 3
\* clientX, clientY of the wheel events
WheelPts == {Pt(0, 0), Pt(30, 40), Pt(400, 300)}

\* the initial state, its view kept in fractions
InitZoom ==
  /\ history = << <<>> >>
  /\ historyStep = 0
  /\ elements = <<>>
  /\ activeTool = "select"
  /\ selectedIds = <<>>
  /\ viewTransform = [x |-> RatOf(0), y |-> RatOf(0), scale |-> RatOf(1)]
  /\ isPanning = FALSE
  /\ panStart = Pt(0, 0)
  /\ creationStart = Null
  /\ dragInfo = NoDrag
  /\ resizeInfo = NoResize
  /\ rotateInfo = NoRotate
  /\ isDrawing = FALSE
  /\ contextMenu = MenuClosed
  /\ pasteElementsLength = 0
  /\ nextId = 0
  /\ crashed = FALSE
  /\ events = 0
  /\ pointer = AtRest
  /\ undoRedo = Off
  /\ ExternalIdle

\* App.tsx:464-481 on a view kept in fractions
ZoomWheel ==
  /\ events < MaxZooms
  /\ events' = events + 1
  /\ \E deltaY \in WheelDeltas, mouse \in WheelPts :
       viewTransform' = WheelTransform(viewTransform, deltaY, mouse)
  /\ pointer' = pointer
  /\ undoRedo' = undoRedo
  /\ UNCHANGED external
  /\ UNCHANGED <<history, historyStep, elements, activeTool, selectedIds,
                 isPanning, panStart, creationStart, dragInfo, resizeInfo,
                 rotateInfo, isDrawing, contextMenu, pasteElementsLength,
                 nextId, crashed>>

NextZoom == ZoomWheel

SpecZoom == InitZoom /\ [][NextZoom]_vars

\* -------------------------------------------- rotating a drawn rectangle
\* clientX, clientY of the moves of a rotation; about the centre (150, 150)
\* of the 100 x 100 rectangle their raw angles are 47.1, 53.1, 7.6, 135,
\* 270, 206.6 and -63.4 degrees
RotatePts == {Pt(250, 57), Pt(250, 75), Pt(160, 75), Pt(250, 250),
              Pt(50, 150), Pt(100, 250), Pt(50, 100)}

RotatePress ==
  /\ Tick
  /\ \E p \in HandlePts :
       /\ HandlesShown
       /\ handleRotateStart(p)
  /\ Track("down")
  /\ UNCHANGED external

RotateMove ==
  /\ Tick
  /\ \E p \in RotatePts, shiftKey \in BOOLEAN : handleMouseMove(p, shiftKey)
  /\ Track("move")
  /\ UNCHANGED external

NextRotate ==
  \/ RotatePress
  \/ RotateMove
  \/ MouseUp

SpecRotate == InitResize /\ [][NextRotate]_vars

\* ------------------------------------------- aligning pasted elements
\* a clipboard text of 50 characters, which pastes as a text element
LongText == "0123456789012345678901234567890123456789012345678X"
\* x and y of the views the three pastes were made in
PasteViews == <<Pt(0, 0), Pt(-80, -40), Pt(160, 80)>>
\* the views an alignment is made in: the initial one, and the one a wheel
\* zoom to scale 2 at client position (80, 40) leaves
AlignViews == {[x |-> 0, y |-> 0, scale |-> 1], [x |-> -80, y |-> -40, scale |-> 2]}
\* the selections a click and shift-clicks made
AlignSelections == {<<"f">>, <<"g">>, <<"f", "g">>, <<"h", "g">>, <<"f", "g", "h">>}

\* what a paste of text made in the view at (tx, ty), scale 1, as
\* createTextElementAtCenter of App.tsx:251-270 computes it
PastedElement(newId, text, tx, ty, z) ==
  [id |-> newId, type |-> IF Len(text) < 50 THEN "sticky" ELSE "text",
   x |-> (ViewSize.width \div 2 - tx) - 100,
   y |-> (ViewSize.height \div 2 - ty) - 50,
   width |-> 200, height |-> IF Len(text) < 50 THEN 200 ELSE 100,
   content |-> text,
   color |-> IF Len(text) < 50 THEN "#fef3c7" ELSE "#1f2937",
   zIndex |-> z]

PastedBoard ==
  <<PastedElement("f", "hi", PasteViews[1].x, PasteViews[1].y, 1),
    PastedElement("g", LongText, PasteViews[2].x, PasteViews[2].y, 2),
    PastedElement("h", "hi", PasteViews[3].x, PasteViews[3].y, 3)>>

\* the state after three pastes, each in its own view, then one click per
\* selected element (each pushes a snapshot, App.tsx:728-730) and the undos
\* that bring the cursor back to the first of these snapshots. The pasted
\* elements hold the ids f, g, h; nextId counts the uuidv4() calls made from
\* this state on, which return a, b, ...
InitAlign ==
  \E view \in AlignViews, selection \in AlignSelections :
    /\ elements = PastedBoard
    /\ history = << <<>> >> \o [i \in 1..Len(selection) |-> PastedBoard]
    /\ historyStep = 1
    /\ activeTool = "select"
    /\ selectedIds = selection
    /\ viewTransform = view
    /\ isPanning = FALSE
    /\ panStart = Pt(0, 0)
    /\ creationStart = Null
    /\ dragInfo = NoDrag
    /\ resizeInfo = NoResize
    /\ rotateInfo = NoRotate
    /\ isDrawing = FALSE
    /\ contextMenu = MenuClosed
    /\ pasteElementsLength = 3
    /\ nextId = 0
    /\ crashed = FALSE
    /\ events = 0
    /\ pointer = AtRest
    /\ undoRedo = Off
    /\ ExternalIdle

\* the contextmenu event on an element, ContextMenu.tsx:868
ContextMenuElement ==
  /\ Tick
  /\ \E id \in Ids(elements), p \in DownPts :
       /\ Clickable(id)
       /\ handleElementSelect(id, 2, p, FALSE)
  /\ Track("menu")
  /\ UNCHANGED external

\* ContextMenu.tsx:58-63 and 70-110, the buttons of the open menu
MenuAlign ==
  /\ Tick
  /\ \E action \in AlignActions \cup MenuActions :
       ContextMenuHandleAction(action)
  /\ Track("command")
  /\ UNCHANGED external

\* ContextMenu.tsx:278-289, the alignment buttons of the toolbar
ToolbarAlign ==
  /\ Tick
  /\ \E type \in AlignTypes :
       /\ Len(SelectSeq(elements, LAMBDA el : Includes(selectedIds, el.id))) > 1
       /\ handleAlign(type)
       /\ UNCHANGED contextMenu
  /\ Track("command")
  /\ UNCHANGED external

\* App.tsx:918, the R key
KeyRect ==
  /\ Tick
  /\ handleSelectTool("rect")
  /\ Track("tool")
  /\ UNCHANGED external

NextAlign ==
  \/ ContextMenuElement
  \/ MenuAlign
  \/ ToolbarAlign
  \/ KeyRect
  \/ MenuClose

SpecAlign == InitAlign /\ [][NextAlign]_vars

\* ------------------------------------- every command on pasted elements
\* the commands of the menu, the toolbar, the palette and the keyboard
NextCommands ==
  \/ ContextMenuElement
  \/ MenuAlign
  \/ ToolbarAlign
  \/ ToolbarFill
  \/ PaletteCommand
  \/ ClearCanvas
  \/ KeyDelete
  \/ KeyRect

SpecCommands == InitAlign /\ [][NextCommands]_vars

\* ------------------------------------------- panning and zooming a board
\* App.tsx:464-481 on a view whose offsets and scale are whole numbers,
\* for the wheel events that leave them whole
handleWheel(deltaY, mouse) ==
  LET view == WheelTransform([x |-> RatOf(viewTransform.x),
                              y |-> RatOf(viewTransform.y),
                              scale |-> RatOf(viewTransform.scale)],
                             deltaY, mouse)
  IN
  /\ IsWhole(view.x) /\ IsWhole(view.y) /\ IsWhole(view.scale)
  /\ viewTransform' = [x |-> view.x.n, y |-> view.y.n, scale |-> view.scale.n]
  /\ UNCHANGED <<history, historyStep, elements, activeTool, selectedIds,
                 isPanning, panStart, creationStart, dragInfo, resizeInfo,
                 rotateInfo, isDrawing, contextMenu, pasteElementsLength,
                 nextId, crashed>>

\* App.tsx:991, the wheel over the container
Wheel ==
  /\ Tick
  /\ \E deltaY \in WheelDeltas, mouse \in WheelPts : handleWheel(deltaY, mouse)
  /\ Track("wheel")
  /\ UNCHANGED external

NextView ==
  \/ MouseDownBackground
  \/ MouseMove
  \/ MouseUp
  \/ Wheel
  \/ Undo
  \/ Redo

SpecView == InitAlign /\ [][NextView]_vars

\* ------------------------- reordering, deleting and pasting onto a board
NextStacking ==
  \/ ContextMenuElement
  \/ MenuAlign
  \/ PaletteCommand
  \/ KeyDelete
  \/ Paste

SpecStacking == InitAlign /\ [][NextStacking]_vars

\* ---------------------------------------- drawing in a panned view
\* the empty board after a pan that moved the view by (30, 40): the screen
\* positions left of and above (30, 40) are at negative world coordinates
InitPanned ==
  /\ history = << <<>> >>
  /\ historyStep = 0
  /\ elements = <<>>
  /\ activeTool = "select"
  /\ selectedIds = <<>>
  /\ viewTransform = [x |-> 30, y |-> 40, scale |-> 1]
  /\ isPanning = FALSE
  /\ panStart = Pt(0, 0)
  /\ creationStart = Null
  /\ dragInfo = NoDrag
  /\ resizeInfo = NoResize
  /\ rotateInfo = NoRotate
  /\ isDrawing = FALSE
  /\ contextMenu = MenuClosed
  /\ pasteElementsLength = 0
  /\ nextId = 0
  /\ crashed = FALSE
  /\ events = 0
  /\ pointer = AtRest
  /\ undoRedo = Off
  /\ ExternalIdle

NextPanned ==
  \/ SelectTool
  \/ MouseDownBackground
  \/ MouseMove
  \/ MouseUp

SpecPanned == InitPanned /\ [][NextPanned]_vars

\* ------------------------------ pasting from the menu and summarizing
\* ContextMenu.tsx:93-99 and App.tsx:423-426, the Paste button of the menu
\* opened with no selection: handlePaste, then onClose
MenuPaste ==
  /\ Tick
  /\ contextMenu.isOpen
  /\ Len(contextMenu.selectedIds) = 0
  /\ handlePaste
  /\ contextMenu' = MenuClosed
  /\ Track("command")

\* the promise of navigator.clipboard.readText() resolves
ClipboardResolves ==
  /\ Tick
  /\ \E i \in 1..Len(clipboardReads), text \in Texts :
       handlePasteResolved(i, text)
  /\ Track("clipboard")

\* the promise of navigator.clipboard.readText() is rejected
ClipboardRejects ==
  /\ Tick
  /\ \E i \in 1..Len(clipboardReads) : handlePasteRejected(i)
  /\ Track("clipboard")

\* App.tsx:955 and 1022, the palette's command and the toolbar's button
Summarize ==
  /\ Tick
  /\ handleSummarize
  /\ Track("summary")

SummarizeResolves ==
  /\ Tick
  /\ \E result \in Summaries : handleSummarizeResolved(result)
  /\ Track("summary")

SummarizeRejects ==
  /\ Tick
  /\ handleSummarizeRejected
  /\ Track("summary")

SummaryClose ==
  /\ Tick
  /\ isSummaryOpen
  /\ CloseSummary
  /\ Track("summary")

\* Every step of NextExternal that changes history or historyStep also
\* replaces the elements array, so the memoized handlePaste
\* (deps [elements, viewTransform]) is the one of the last render.
NextExternal ==
  \/ ContextMenuBackground
  \/ MenuPaste
  \/ ClipboardResolves
  \/ ClipboardRejects
  \/ Summarize
  \/ SummarizeResolves
  \/ SummarizeRejects
  \/ SummaryClose
  \/ Paste
  \/ ClearCanvas
  \/ Undo
  \/ Redo

SpecExternal == Init /\ [][NextExternal]_vars

\* ================================================================ claims

\* C1: starting from the initial state, after N commits with no undo in
\* between, N undos make the visible collection the initial empty
\* collection, and N redos after them make it the collection of the N-th
\* commit.
C1_UndoRedoRoundTrip ==
  /\ (undoRedo.phase = "undo" /\ undoRedo.k = undoRedo.n) => elements = <<>>
  /\ (undoRedo.phase = "redo" /\ undoRedo.k = undoRedo.n)
       => elements = undoRedo.last

\* two commits of different non-empty collections, two undos, two redos
C1_Witness ==
  /\ undoRedo.phase = "redo"
  /\ undoRedo.n = 2
  /\ undoRedo.k = 2
  /\ undoRedo.last # <<>>
  /\ history[2] # <<>>
  /\ history[2] # history[3]

\* a step of a handler that called addToHistory
Committed ==
  /\ ~Undo
  /\ ~Redo
  /\ <<history, historyStep>>' # <<history, historyStep>>

Created == Find(elements, LAMBDA el : el.id = pointer.id)

\* C3: each completed gesture of kind drag, resize, rotate, freehand draw or
\* non-degenerate drag-to-create (one pointer-down, any number of
\* pointer-moves, one pointer-up) adds exactly one snapshot to the history,
\* and that snapshot equals the element collection visible at pointer-up.
C3_GestureCommitsOnce ==
  [][/\ (pointer'.kind # "none" /\ pointer'.trace = "clean")
          => UNCHANGED <<history, historyStep>>
     /\ (/\ MouseUp
         /\ pointer.trace = "clean"
         /\ \/ pointer.kind \in {"drag", "resize", "rotate", "draw"}
            \/ /\ pointer.kind = "create"
               /\ ~(Created.width < 5 /\ Created.height < 5))
          => /\ history' = Append(SubSeq(history, 1, historyStep + 1), elements')
             /\ historyStep' = Len(history') - 1]_vars

\* an element was rotated by one press, moves and a release, and the
\* rotated collection is the snapshot under the cursor
C3_Witness ==
  /\ pointer.ended = "rotate"
  /\ pointer.trace = "clean"
  /\ historyStep >= 1
  /\ elements = history[historyStep + 1]
  /\ \E i \in 1..Len(elements) :
       Has(elements[i], "rotation") /\ elements[i].rotation # 0

\* C4: a pointer-move event never changes the snapshot sequence or the
\* cursor, in any gesture state; intermediate frames only change the working
\* element collection or the view transform.
C4_MoveKeepsHistory ==
  [][MouseMove => UNCHANGED <<history, historyStep, activeTool, selectedIds,
                              nextId, contextMenu>>]_vars

\* a resize in progress whose moves have changed the working collection
C4_Witness ==
  /\ resizeInfo.isResizing
  /\ Len(selectedIds) = 1
  /\ \E i \in 1..Len(elements) :
       /\ elements[i].id = selectedIds[1]
       /\ elements[i].width # resizeInfo.initialWidth
  /\ elements # history[historyStep + 1]

\* C5: whenever no gesture is in progress, the visible element collection
\* equals snapshots[cursor], after any sequence of gestures, commands,
\* text-content edits, pastes, undo and redo.
C5_VisibleIsSnapshot ==
  Gestures = {} => elements = history[historyStep + 1]

\* C6: in every reachable state at most one gesture is active: at most one
\* of panning, freehand drawing, drag-to-create, dragging, resizing and
\* rotating holds, for every sequence of pointer-downs on background,
\* elements and handles with any button and any active tool.
C6_OneGesture ==
  pointer.trace \in {"clean", "presses"} => Cardinality(Gestures) <= 1

\* C7: a drag-to-create gesture whose element has width < 5 and height < 5
\* at pointer-up, a press and release with no move (width = height = 0)
\* included, removes the new element from the store, clears the selection
\* and leaves the snapshot sequence and the cursor as they were.
C7_DegenerateDiscarded ==
  [][(/\ MouseUp
      /\ pointer.kind = "create"
      /\ pointer.trace = "clean"
      /\ Created # Undefined
      /\ Created.width < 5
      /\ Created.height < 5)
       => /\ pointer.id \notin Ids(elements')
          /\ selectedIds' = <<>>
          /\ UNCHANGED <<history, historyStep>>]_vars

\* C8: after the pointer-up or pointer-leave that ends a creation gesture
\* (freehand or drag-to-create), the element created at pointer-down is
\* either contained in snapshots[cursor] or absent from the element store,
\* for every interleaving of tool shortcuts and pastes during the gesture.
C8_CreatedCommittedOrAbsent ==
  (pointer.ended \in {"draw", "create"} /\ pointer.trace \in {"clean", "keys"})
    => \/ Created = Undefined
       \/ \E i \in 1..Len(history[historyStep + 1]) :
            history[historyStep + 1][i] = Created

UniqueIds(els) ==
  \A i, j \in 1..Len(els) : i # j => els[i].id # els[j].id

\* C9: element ids are unique: no two elements of the visible collection,
\* and no two elements of any snapshot, share an id.
C9_UniqueIds ==
  /\ UniqueIds(elements)
  /\ \A k \in 1..Len(history) : UniqueIds(history[k])

\* an element and its duplicate, visible and committed
C9_Witness ==
  /\ Len(elements) = 2
  /\ elements[2].x = elements[1].x + 20
  /\ elements[2].id # elements[1].id
  /\ history[historyStep + 1] = elements

SetOf(s) == {s[i] : i \in 1..Len(s)}

\* C11: a left-button pointer-down on element id with the select tool
\* updates the selection S: with shift held, id is removed from S if it was
\* a member and added otherwise; without shift, S is unchanged if id is
\* already in S and becomes exactly {id} if it is not.
C11_SelectByClick ==
  [][\A id \in Ids(elements), p \in DownPts, shiftKey \in BOOLEAN :
       (/\ activeTool = "select"
        /\ MouseDownElement
        /\ handleElementSelect(id, 0, p, shiftKey))
         => /\ SetOf(selectedIds') =
                 IF shiftKey
                 THEN IF id \in SetOf(selectedIds)
                      THEN SetOf(selectedIds) \ {id}
                      ELSE SetOf(selectedIds) \cup {id}
                 ELSE IF id \in SetOf(selectedIds)
                      THEN SetOf(selectedIds)
                      ELSE {id}
            /\ Len(selectedIds') = Cardinality(SetOf(selectedIds'))]_vars

\* a shift-click has added a second element to the selection
C11_Witness ==
  /\ activeTool = "select"
  /\ Len(selectedIds) = 2
  /\ dragInfo.isDragging
  /\ Len(dragInfo.initialPositions) = 2
  /\ pointer.kind = "drag"
  /\ pointer.trace = "clean"

\* the drag in progress has displaced no element it captured
Undisplaced ==
  \A i \in 1..Len(dragInfo.initialPositions) :
    LET init == dragInfo.initialPositions[i]
        el == Find(elements, LAMBDA e : e.id = init.id)
    IN el # Undefined => (el.x = init.x /\ el.y = init.y)

\* C12: an interaction whose only effect is a selection change (a click or
\* shift-click on an element with the pointer-up at the same position, a
\* background click, a tool switch) leaves the snapshot sequence and the
\* cursor unchanged.
C12_SelectionNotRecorded ==
  [][(\/ MouseDownElement
      \/ SelectTool
      \/ /\ MouseUp
         /\ pointer.trace = "clean"
         /\ \/ pointer.kind = "drag" /\ Undisplaced
            \/ pointer.kind = "pan" /\ viewTransform.x = 0 /\ viewTransform.y = 0)
       => UNCHANGED <<history, historyStep>>]_vars

\* the position captured for element id when the drag began, or undefined
Captured(id) == Find(dragInfo.initialPositions, LAMBDA q : q.id = id)

\* C13: during a drag gesture, after every pointer-move each element
\* captured at gesture start has its captured initial position plus (current
\* pointer world position minus pointer-down world position), whatever the
\* number of moves, and the elements not captured are unchanged.
C13_DragByInitialDelta ==
  [][\A p \in Pts, shiftKey \in BOOLEAN :
       (/\ pointer.kind = "drag"
        /\ pointer.trace = "clean"
        /\ MouseMove
        /\ handleMouseMove(p, shiftKey))
         => /\ Len(elements') = Len(elements)
            /\ \A i \in 1..Len(elements) :
                 IF Captured(elements[i].id) # Undefined
                 THEN elements'[i] =
                        With(elements[i],
                             [x |-> Captured(elements[i].id).x
                                      + (getMousePos(p).x - dragInfo.startX),
                              y |-> Captured(elements[i].id).y
                                      + (getMousePos(p).y - dragInfo.startY)])
                 ELSE elements'[i] = elements[i]]_vars

\* two elements captured by one drag, both displaced by the same vector
C13_Witness ==
  /\ pointer.kind = "drag"
  /\ pointer.trace = "clean"
  /\ Len(dragInfo.initialPositions) = 2
  /\ \A i \in 1..2 :
       LET init == dragInfo.initialPositions[i]
           el == Find(elements, LAMBDA e : e.id = init.id)
       IN el # Undefined /\ el.x = init.x + 3 /\ el.y = init.y + 4

\* the one selected element, after the step
ResizedNow == Find(elements', LAMBDA el : el.id = selectedIds[1])

\* C14: during a resize gesture, for each of the 8 handles and every pointer
\* position, the element keeps width >= 20 and height >= 20; for handles
\* containing w the right edge stays at initialX + initialWidth, for handles
\* containing n the bottom edge stays at initialY + initialHeight, and for
\* handles containing e or s the left or top edge stays where it was.
C14_ResizeFloorAndAnchors ==
  [][(pointer.kind = "resize" /\ pointer.trace = "clean" /\ ResizeMove)
       => /\ ResizedNow.width >= 20
          /\ ResizedNow.height >= 20
          /\ HandleIncludes(resizeInfo.handle, "w")
               => ResizedNow.x + ResizedNow.width
                    = resizeInfo.initialX + resizeInfo.initialWidth
          /\ HandleIncludes(resizeInfo.handle, "n")
               => ResizedNow.y + ResizedNow.height
                    = resizeInfo.initialY + resizeInfo.initialHeight
          /\ HandleIncludes(resizeInfo.handle, "e")
               => ResizedNow.x = resizeInfo.initialX
          /\ HandleIncludes(resizeInfo.handle, "s")
               => ResizedNow.y = resizeInfo.initialY]_vars

\* a 100 x 100 box dragged 200 units rightward by its w handle: width 20,
\* right edge where it was
C14_Witness ==
  /\ pointer.kind = "resize"
  /\ pointer.trace = "clean"
  /\ resizeInfo.handle = "w"
  /\ resizeInfo.initialWidth = 100
  /\ resizeInfo.initialX = 100
  /\ \E i \in 1..Len(elements) :
       /\ elements[i].id = selectedIds[1]
       /\ elements[i].width = 20
       /\ elements[i].x = 180

\* the stroke being drawn, before the pointer-up, and after it
StrokeBefore == Find(elements, LAMBDA el : el.id = pointer.id)
StrokeAfter == Find(elements', LAMBDA el : el.id = pointer.id)
StrokeXs == Map(StrokeBefore.points, LAMBDA q : q.x)
StrokeYs == Map(StrokeBefore.points, LAMBDA q : q.y)

\* the box and the points of the stroke after the pointer-up, but for the size
StrokeBoxed ==
  /\ StrokeAfter.x = SeqMin(StrokeXs) - 5
  /\ StrokeAfter.y = SeqMin(StrokeYs) - 5
  /\ Len(StrokeAfter.points) = Len(StrokeBefore.points)
  /\ \A i \in 1..Len(StrokeBefore.points) :
       StrokeAfter.points[i] = Pt(StrokeBefore.points[i].x - StrokeAfter.x,
                                  StrokeBefore.points[i].y - StrokeAfter.y)

\* C15 as the specification states it: on the pointer-up of a freehand stroke
\* with captured points P, x = minX - 5, y = minY - 5,
\* width = maxX - minX + 10, height = maxY - minY + 10, and every stored
\* point is the captured point minus (x, y).
C15_StrokeBoxAsStated ==
  [][(pointer.kind = "draw" /\ pointer.trace = "clean" /\ MouseUp)
       => /\ StrokeBoxed
          /\ StrokeAfter.width = SeqMax(StrokeXs) - SeqMin(StrokeXs) + 10
          /\ StrokeAfter.height = SeqMax(StrokeYs) - SeqMin(StrokeYs) + 10]_vars

\* C15, amended: on the pointer-up of a freehand stroke with captured points
\* P, x = minX - 5, y = minY - 5, width = max(20, maxX - minX + 10),
\* height = max(20, maxY - minY + 10), and every stored point is the captured
\* point minus (x, y).
C15_StrokeBoxFloored ==
  [][(pointer.kind = "draw" /\ pointer.trace = "clean" /\ MouseUp)
       => /\ StrokeBoxed
          /\ StrokeAfter.width
               = Max2(20, SeqMax(StrokeXs) - SeqMin(StrokeXs) + 10)
          /\ StrokeAfter.height
               = Max2(20, SeqMax(StrokeYs) - SeqMin(StrokeYs) + 10)]_vars

\* a stroke through (0,0) and (30,40) after its pointer-up
C15_Witness ==
  /\ pointer.ended = "draw"
  /\ pointer.trace = "clean"
  /\ \E i \in 1..Len(elements) :
       /\ elements[i].id = pointer.id
       /\ elements[i].x = -5 /\ elements[i].y = -5
       /\ elements[i].width = 40 /\ elements[i].height = 50
       /\ elements[i].points = <<Pt(5, 5), Pt(35, 45)>>

\* the selected elements of the board, before the step
SelectedEls == SelectSeq(elements, LAMBDA el : Includes(selectedIds, el.id))

\* the union bounding box of the elements els
BoxOf(els) ==
  [minX |-> SeqMin(Map(els, LAMBDA el : el.x)),
   maxX |-> SeqMax(Map(els, LAMBDA el : el.x + el.width)),
   minY |-> SeqMin(Map(els, LAMBDA el : el.y)),
   maxY |-> SeqMax(Map(els, LAMBDA el : el.y + el.height))]

\* the world rectangle of the viewport: origin (-tx / scale, -ty / scale),
\* size the viewport's pixels / scale
ViewBox ==
  LET ox == (0 - viewTransform.x) \div viewTransform.scale
      oy == (0 - viewTransform.y) \div viewTransform.scale
  IN [minX |-> ox, maxX |-> ox + ViewSize.width \div viewTransform.scale,
      minY |-> oy, maxY |-> oy + ViewSize.height \div viewTransform.scale]

\* el sits in the box b as the alignment type asks (centres compared doubled)
Aligned(type, el, b) ==
  CASE type = "left" -> el.x = b.minX
    [] type = "right" -> el.x + el.width = b.maxX
    [] type = "center" -> 2 * el.x + el.width = b.minX + b.maxX
    [] type = "top" -> el.y = b.minY
    [] type = "bottom" -> el.y + el.height = b.maxY
    [] type = "middle" -> 2 * el.y + el.height = b.minY + b.maxY

\* after differs from before on the axis of the alignment at most
OnAxisOnly(type, before, after) ==
  IF type \in {"left", "center", "right"}
  THEN after = With(before, [x |-> after.x])
  ELSE after = With(before, [y |-> after.y])

\* the step aligned the selection into the box b, and nothing else moved
AlignedInto(type, b) ==
  /\ Len(elements') = Len(elements)
  /\ \A i \in 1..Len(elements) :
       IF Includes(selectedIds, elements[i].id)
       THEN /\ Aligned(type, elements'[i], b)
            /\ OnAxisOnly(type, elements[i], elements'[i])
       ELSE elements'[i] = elements[i]

\* C16: aligning two or more selected elements uses their union bounding
\* box: left puts every x at the box's min x, right every right edge at the
\* max right edge, center every horizontal centre at the box's midpoint, and
\* top, middle, bottom the same on y; the other axis, width, height and the
\* unselected elements are unchanged.
C16_AlignToSelectionBox ==
  [][\A type \in AlignTypes :
       (/\ Len(SelectedEls) >= 2
        /\ ToolbarAlign \/ MenuAlign
        /\ handleAlign(type))
         => AlignedInto(type, BoxOf(SelectedEls))]_vars

\* h (200 x 200 at y 170) and g (200 x 100 at y 290) aligned to the middle of
\* their box 170..390; f was not selected
C16_Witness ==
  /\ selectedIds = <<"h", "g">>
  /\ historyStep = 2
  /\ \E i, j, k \in 1..Len(elements) :
       /\ elements[i].id = "h" /\ elements[i].y = 180 /\ elements[i].x = 140
       /\ elements[j].id = "g" /\ elements[j].y = 230 /\ elements[j].x = 380
       /\ elements[k] = PastedBoard[1]

\* C17: aligning exactly one selected element uses the world rectangle of the
\* viewport (origin (-tx / scale, -ty / scale), size the viewport's pixels /
\* scale): center puts the element's horizontal centre at the viewport's
\* midpoint, and left, right, top, bottom put it on the viewport's edges.
C17_AlignOneToViewport ==
  [][\A type \in AlignTypes :
       (/\ Len(SelectedEls) = 1
        /\ MenuAlign
        /\ handleAlign(type))
         => AlignedInto(type, ViewBox)]_vars

\* at scale 2 with the view at (-80, -40) the viewport is 40..440 wide in
\* world units: f, 200 wide, centred in it
C17_Witness ==
  /\ viewTransform = [x |-> -80, y |-> -40, scale |-> 2]
  /\ selectedIds = <<"f">>
  /\ historyStep = 2
  /\ \E i \in 1..Len(elements) :
       /\ elements[i].id = "f"
       /\ elements[i].x = 140
       /\ elements[i].y = PastedBoard[1].y

\* the ids an action dispatched with the explicit id elementId is to affect
ClaimedTargets(elementId) ==
  IF elementId # NullId /\ elementId \notin SetOf(selectedIds)
  THEN {elementId}
  ELSE SetOf(selectedIds)

\* the step did to the elements with ids in T what the action is, and left
\* every other element as it was
AffectsExactly(action, T) ==
  LET targets == SelectSeq(elements, LAMBDA el : el.id \in T)
      others == SelectSeq(elements, LAMBDA el : el.id \notin T)
      after(id) == Find(elements', LAMBDA el : el.id = id)
  IN /\ \A i \in 1..Len(others) : Includes(elements', others[i])
     /\ CASE action = "delete" -> Ids(elements') = Ids(others)
          [] action = "duplicate" ->
               /\ Len(elements') = Len(elements) + Len(targets)
               /\ \A i \in 1..Len(targets) : Includes(elements', targets[i])
          [] action = "front" ->
               /\ Ids(elements') = Ids(elements)
               /\ \A i \in 1..Len(targets) :
                    /\ after(targets[i].id).zIndex > targets[i].zIndex
                    /\ \A j \in 1..Len(others) :
                         after(targets[i].id).zIndex > others[j].zIndex
          [] action = "back" ->
               /\ Ids(elements') = Ids(elements)
               /\ \A i \in 1..Len(targets) :
                    /\ after(targets[i].id).zIndex < targets[i].zIndex
                    /\ \A j \in 1..Len(others) :
                         after(targets[i].id).zIndex < others[j].zIndex
          [] action \in AlignActions ->
               /\ Ids(elements') = Ids(elements)
               /\ \A i \in 1..Len(targets) :
                    Aligned(AlignType(action), after(targets[i].id),
                            IF Len(targets) = 1 THEN ViewBox ELSE BoxOf(targets))

\* C20: for every action the context menu dispatches (delete, duplicate,
\* front, back and each align-*): if the explicit id it supplies is not in
\* the selection the action affects that element only, and otherwise it
\* affects exactly the current selection.
C20_ActionTargets ==
  [][\A action \in AlignActions \cup MenuActions :
       (MenuAlign /\ ContextMenuHandleAction(action))
         => AffectsExactly(action, ClaimedTargets(contextMenu.selectedIds[1]))]_vars

\* the elements a duplicate of the targets of elementId copies, in the order
\* of the target ids
DuplicateTargets(elementId) ==
  LET targetIds == TargetIds(elementId)
  IN [i \in 1..Len(targetIds) |->
        Find(elements, LAMBDA el : el.id = targetIds[i])]

\* the elements the step appended
Appended == SubSeq(elements', Len(elements) + 1, Len(elements'))

\* the step is a duplicate dispatched with elementId by the menu or the palette
DuplicateStep(elementId) ==
  /\ MenuAlign \/ MenuAction \/ PaletteCommand
  /\ handleContextMenuAction("duplicate", elementId)

\* C18: duplicating k targets adds exactly k new elements with fresh ids,
\* each at x + 20, y + 20 of its original with every other field but zIndex
\* copied; the originals are unchanged; the selection becomes exactly the k
\* new ids.
C18_DuplicateCopies ==
  [][\A elementId \in Ids(elements) :
       DuplicateStep(elementId)
         => LET targets == DuplicateTargets(elementId)
                k == Len(targets)
            IN /\ Len(elements') = Len(elements) + k
               /\ SubSeq(elements', 1, Len(elements)) = elements
               /\ \A i \in 1..k :
                    /\ Appended[i].id \notin Ids(elements)
                    /\ \A j \in 1..k : Appended[j].id = Appended[i].id => j = i
                    /\ Appended[i]
                         = With(targets[i], [id |-> Appended[i].id,
                                             x |-> targets[i].x + 20,
                                             y |-> targets[i].y + 20,
                                             zIndex |-> Appended[i].zIndex])
               /\ SetOf(selectedIds') = Ids(Appended)
               /\ Len(selectedIds') = k]_vars

\* f and g duplicated together: five elements, the last two the copies a of
\* f and b of g, 20 units right of and below them, and selected
C18_Witness ==
  /\ Len(elements) = 5
  /\ SubSeq(elements, 1, 3) = PastedBoard
  /\ elements[4] = With(PastedBoard[1], [id |-> "a", x |-> PastedBoard[1].x + 20,
                                         y |-> PastedBoard[1].y + 20,
                                         zIndex |-> elements[4].zIndex])
  /\ elements[5] = With(PastedBoard[2], [id |-> "b", x |-> PastedBoard[2].x + 20,
                                         y |-> PastedBoard[2].y + 20,
                                         zIndex |-> elements[5].zIndex])
  /\ selectedIds = <<"a", "b">>

\* C19: after a duplicate, the zIndex of every duplicate is strictly greater
\* than the zIndex of every element that existed before it, in any reachable
\* state of the store, after front and back reordering and deletions too.
C19_DuplicatesOnTop ==
  [][\A elementId \in Ids(elements) :
       DuplicateStep(elementId)
         => \A i \in 1..Len(Appended), j \in 1..Len(elements) :
              Appended[i].zIndex > elements[j].zIndex]_vars

\* the step is the action dispatched with elementId by the menu or the palette
ReorderStep(action, elementId) ==
  /\ MenuAlign \/ MenuAction \/ PaletteCommand
  /\ handleContextMenuAction(action, elementId)

\* the position of the element id in els
IndexOf(els, id) == CHOOSE i \in 1..Len(els) : els[i].id = id

\* els is ordered by non-decreasing zIndex
OrderedByZ(els) ==
  \A i, j \in 1..Len(els) : i < j => els[i].zIndex <= els[j].zIndex

\* elements of equal zIndex after the step are in the order they had before it
TiesKeepOrder ==
  \A i, j \in 1..Len(elements') :
    (i < j /\ elements'[i].zIndex = elements'[j].zIndex)
      => IndexOf(elements, elements'[i].id) < IndexOf(elements, elements'[j].id)

\* C21: after front every targeted element has a zIndex strictly greater
\* than every non-targeted element, after back strictly smaller; in both
\* cases the committed collection is ordered by non-decreasing zIndex and
\* elements of equal zIndex keep their previous relative order.
C21_FrontBackOrder ==
  [][\A action \in {"front", "back"}, elementId \in Ids(elements) :
       ReorderStep(action, elementId)
         => LET T == SetOf(TargetIds(elementId))
            IN /\ Ids(elements') = Ids(elements)
               /\ Len(elements') = Len(elements)
               /\ \A i, j \in 1..Len(elements') :
                    (elements'[i].id \in T /\ elements'[j].id \notin T)
                      => IF action = "front"
                         THEN elements'[i].zIndex > elements'[j].zIndex
                         ELSE elements'[i].zIndex < elements'[j].zIndex
               /\ OrderedByZ(elements')
               /\ history'[historyStep' + 1] = elements'
               /\ TiesKeepOrder]_vars

\* f and g, the two lowest of f, g, h, brought to the front together: h is
\* first, then f and g with one zIndex and in their old order
C21_Witness ==
  /\ Len(elements) = 3
  /\ elements[1] = PastedBoard[3]
  /\ elements[2] = With(PastedBoard[1], [zIndex |-> 4])
  /\ elements[3] = With(PastedBoard[2], [zIndex |-> 4])
  /\ history[historyStep + 1] = elements

\* one snapshot was pushed after the cursor, and it is what is visible
PushedVisible ==
  /\ history' = Append(SubSeq(history, 1, historyStep + 1), elements')
  /\ historyStep' = historyStep + 1

\* C22: each discrete command that mutates the store (delete, duplicate,
\* front, back, align, style or color update, clear canvas) pushes exactly
\* one snapshot, and that snapshot equals the element collection visible
\* after the command.
C22_CommandCommitsOnce ==
  [][((\/ MenuAlign \/ ToolbarAlign \/ ToolbarFill
       \/ PaletteCommand \/ ClearCanvas)
      /\ elements' # elements)
       => PushedVisible]_vars

\* the toolbar's fill swatch recoloured the one selected sticky f: a third
\* snapshot, which is the visible collection
C22_Witness ==
  /\ Len(history) = 3
  /\ historyStep = 2
  /\ history[3] = elements
  /\ Len(elements) = 3
  /\ elements[1] = With(PastedBoard[1], [color |-> "#ffffff", fillColor |-> "#ffffff"])

\* C23: Delete or Backspace with a non-empty selection and no text input
\* focused removes exactly the selected elements (the others unchanged and in
\* the same order), commits once and empties the selection; with an empty
\* selection it changes nothing.
C23_DeleteKey ==
  [][KeyDelete
       => IF Len(selectedIds) > 0
          THEN /\ elements' = SelectSeq(elements, LAMBDA el :
                                          el.id \notin SetOf(selectedIds))
               /\ PushedVisible
               /\ selectedIds' = <<>>
          ELSE UNCHANGED <<elements, history, historyStep, selectedIds>>]_vars

\* f and g were selected and deleted with the key: h alone is left, as the
\* third snapshot, and nothing is selected
C23_Witness ==
  /\ elements = <<PastedBoard[3]>>
  /\ selectedIds = <<>>
  /\ Len(history) = 3
  /\ historyStep = 2
  /\ history[2] = PastedBoard
  /\ history[3] = elements

\* C28: an action (delete, duplicate, front, back) whose target id does not
\* exist in the element store is a no-op: the element collection (contents
\* and order), the snapshot sequence and the cursor are unchanged.
C28_MissingTargetNoOp ==
  [][\A action \in MenuActions :
       (/\ MenuAction
        /\ ContextMenuHandleAction(action)
        /\ SetOf(TargetIds(contextMenu.selectedIds[1])) \cap Ids(elements) = {})
         => UNCHANGED <<elements, history, historyStep>>]_vars

\* C30: a right-button pointer-down, on the background or on an element,
\* never starts a pan, creation, freehand or drag gesture and never changes
\* the element collection; while a drawing tool (pen or highlighter) is
\* active it also never opens the context menu.
C30_RightButtonStartsNothing ==
  [][\A p \in DownPts :
       (\/ MouseDownBackground /\ handleMouseDown(2, p, TRUE)
        \/ /\ MouseDownElement
           /\ \E id \in Ids(elements), shiftKey \in BOOLEAN :
                handleElementSelect(id, 2, p, shiftKey))
         => /\ UNCHANGED <<elements, isPanning, creationStart, isDrawing, dragInfo>>
            /\ isDrawingMode => (contextMenu'.isOpen => contextMenu.isOpen)]_vars

\* the rect tool is active and the right button went down on the pasted
\* sticky a: the menu is open on it and no gesture is in progress
C30_Witness ==
  /\ activeTool = "rect"
  /\ contextMenu = [isOpen |-> TRUE, selectedIds |-> <<"a">>]
  /\ Len(elements) = 1
  /\ elements[1].type = "sticky"
  /\ Gestures = {}

\* twice the raw angle of a rotation whose pointer is at the client position
\* p, rounded down: the direction from the centre to the pointer, plus 90
RawHalfDeg(p) ==
  Atan2HalfDeg(getMousePos(p).y - rotateInfo.centerY,
               getMousePos(p).x - rotateInfo.centerX) + 180

\* the rotation of the one selected element, after the step
RotationNow == Find(elements', LAMBDA el : el.id = selectedIds[1]).rotation

\* C26: during a rotate gesture with shift held the rotation of the element
\* is the multiple of 15 degrees nearest to the raw angle (raw 47 gives 45,
\* raw 53 gives 60); without shift the rotation equals the raw angle (the
\* model keeps its whole degrees, less than one degree from it).
C26_RotateSnap ==
  [][\A p \in RotatePts, shiftKey \in BOOLEAN :
       (/\ pointer.kind = "rotate"
        /\ pointer.trace = "clean"
        /\ RotateMove
        /\ handleMouseMove(p, shiftKey))
         => IF shiftKey
            THEN /\ RotationNow % 15 = 0
                 /\ 2 * RotationNow - 15 <= RawHalfDeg(p)
                 /\ RawHalfDeg(p) <= 2 * RotationNow + 14
            ELSE /\ 2 * RotationNow - 2 <= RawHalfDeg(p)
                 /\ RawHalfDeg(p) <= 2 * RotationNow + 1]_vars

\* the 100 x 100 rectangle rotated with shift held and the pointer at a raw
\* angle of 47.1 degrees: 45
C26_Witness ==
  /\ pointer.kind = "rotate"
  /\ pointer.trace = "clean"
  /\ rotateInfo.centerX = 150
  /\ rotateInfo.centerY = 150
  /\ \E i \in 1..Len(elements) :
       /\ elements[i].id = selectedIds[1]
       /\ elements[i].rotation = 45

\* the same rectangle with the pointer at a raw angle of 53.1 degrees: 60
C26_WitnessUp ==
  /\ pointer.kind = "rotate"
  /\ rotateInfo.centerX = 150
  /\ rotateInfo.centerY = 150
  /\ \E i \in 1..Len(elements) :
       /\ elements[i].id = selectedIds[1]
       /\ elements[i].rotation = 60

\* the world coordinate the view maps the screen coordinate m to, App.tsx:102-107
WorldOf(m, offset, scale) == RatDiv(RatSub(RatOf(m), offset), scale)

\* clamp(v, lo, hi)
RatClamp(v, lo, hi) ==
  IF RatLess(v, lo) THEN lo ELSE IF RatLess(hi, v) THEN hi ELSE v

\* C25: after a wheel-zoom at the screen position m the new scale is
\* clamp(scale * (1 + delta * k), 0.1, 5.0), with delta = -deltaY and
\* k = 0.001, and the world point that mapped to m before the event still
\* maps to m: (m - newOffset) / newScale = (m - oldOffset) / oldScale on both
\* axes. The arithmetic is exact.
C25_WheelAnchors ==
  [][\A deltaY \in WheelDeltas, m \in WheelPts :
       (ZoomWheel /\ viewTransform' = WheelTransform(viewTransform, deltaY, m))
         => /\ viewTransform'.scale
                 = RatClamp(Rat(viewTransform.scale.n * (1000 - deltaY),
                                viewTransform.scale.d * 1000),
                            Rat(1, 10), RatOf(5))
            /\ WorldOf(m.x, viewTransform'.x, viewTransform'.scale)
                 = WorldOf(m.x, viewTransform.x, viewTransform.scale)
            /\ WorldOf(m.y, viewTransform'.y, viewTransform'.scale)
                 = WorldOf(m.y, viewTransform.y, viewTransform.scale)]_vars

\* zoomed at (30, 40) from scale 1 to 2 and then by 10 to the limit 5: the
\* world point (30, 40) is still under the pointer
C25_Witness ==
  /\ viewTransform.scale = RatOf(5)
  /\ viewTransform.x = RatOf(-120)
  /\ viewTransform.y = RatOf(-160)

\* a pointer-move of a pan, App.tsx:571-577
PanMove == MouseMove /\ isPanning

\* C24: undo and redo never change the view transform; a pan and a
\* wheel-zoom never change the elements, the snapshot sequence or the cursor.
C24_ViewAndStoreApart ==
  [][/\ (Undo \/ Redo) => viewTransform' = viewTransform
     /\ (PanMove \/ Wheel) => UNCHANGED <<elements, history, historyStep>>]_vars

\* zoomed to scale 2 at the origin, panned by (3, 4), and then undone to the
\* empty snapshot
C24_Witness ==
  /\ viewTransform = [x |-> 3, y |-> 4, scale |-> 2]
  /\ historyStep = 0
  /\ elements = <<>>
  /\ Len(history) > 1

\* C29: every clipboard paste that inserts an element is one ordinary
\* commit: the new element is in the snapshot at the cursor, and the
\* snapshot sequence has grown by exactly one. Stated here for the native
\* paste event.
C29_PasteCommits ==
  [][(Paste /\ Len(elements') = Len(elements) + 1)
       => /\ Len(history') = Len(history) + 1
          /\ historyStep' = Len(history') - 1
          /\ elements'[Len(elements')].id \in Ids(history'[historyStep' + 1])]_vars

\* the store and the selection
Store == <<elements, history, historyStep, selectedIds>>

\* C27: when an external collaborator fails (the clipboard read is
\* rejected, the summarization throws), the elements, the snapshot
\* sequence, the cursor and the selection are exactly as before; a
\* successful summarization leaves them unchanged as well.
C27_FailuresKeepStore ==
  [][(ClipboardRejects \/ SummarizeRejects \/ SummarizeResolves)
       => UNCHANGED Store]_vars

\* with a pasted note on the board and a summarization awaited, the
\* clipboard read of a menu paste was rejected
C27_Witness ==
  /\ alerted = ClipboardAlert
  /\ Len(elements) = 1
  /\ isProcessingAI
  /\ summarizeCalls = 1
  /\ clipboardReads = <<>>

\* C31: a pointer-leave is handled as a pointer-up: from every state both
\* events produce the same next state, and in that state no gesture is
\* active (no pan, stroke, creation, drag, resize or rotation).
C31_LeaveIsUp ==
  [][/\ MouseLeave <=> MouseUp
     /\ (MouseLeave \/ MouseUp) => Gestures' = {}]_vars

\* the same, for the pointer-ups and pointer-leaves whose updater did not throw
C31_LeaveIsUpUnlessThrown ==
  [][/\ MouseLeave <=> MouseUp
     /\ (MouseLeave \/ MouseUp) => (crashed' \/ Gestures' = {})]_vars

\* width and height of el, where it has them, are not negative
SizesNonNegative(el) ==
  /\ Has(el, "width") => el.width >= 0
  /\ Has(el, "height") => el.height >= 0

\* C32: in every reachable state, the states in the middle of a gesture
\* included, every element of the store has width >= 0 and height >= 0, and
\* so has every element of every snapshot.
C32_SizesNonNegative ==
  /\ \A i \in 1..Len(elements) : SizesNonNegative(elements[i])
  /\ \A k \in 1..Len(history) :
       \A i \in 1..Len(history[k]) : SizesNonNegative(history[k][i])

\* C33: in every reachable state the history is not empty, its first
\* snapshot is the empty collection and 0 <= historyStep < Len(history); an
\* undo at cursor 0 and a redo at the last index leave the history, the
\* cursor and the visible elements as they were.
C33_HistoryShape ==
  /\ [](/\ Len(history) >= 1
        /\ history[1] = <<>>
        /\ 0 <= historyStep
        /\ historyStep < Len(history))
  /\ [][((Undo /\ historyStep = 0) \/ (Redo /\ historyStep = Len(history) - 1))
         => UNCHANGED <<history, historyStep, elements>>]_vars

\* a note was pasted and then an undo or a redo ran at the only snapshot:
\* the note is still shown
C33_Witness ==
  /\ undoRedo = Off
  /\ events = 1
  /\ historyStep = 0
  /\ Len(history) = 1
  /\ Len(elements) = 1

\* the step added exactly one element, of zero size, at the world position
\* of the client position p, and made it the sole selection
CreatedAt(p) ==
  /\ Len(elements') = Len(elements) + 1
  /\ SubSeq(elements', 1, Len(elements)) = elements
  /\ LET el == elements'[Len(elements')]
     IN /\ el.id \notin Ids(elements)
        /\ el.width = 0 /\ el.height = 0
        /\ el.x = getMousePos(p).x /\ el.y = getMousePos(p).y
        /\ selectedIds' = <<el.id>>

\* a creation tool: neither select nor a drawing tool
CreationTool == activeTool # "select" /\ ~isDrawingMode

\* C34: with a tool active that is neither select nor a drawing tool, every
\* left-button pointer-down on the canvas, on the background or on an
\* existing element, adds exactly one new zero-size element at the
\* pointer's world position and makes it the sole selection.
C34_PressCreates ==
  [][\A p \in DownPts :
       /\ (CreationTool /\ MouseDownBackground /\ handleMouseDown(0, p, TRUE))
            => CreatedAt(p)
       /\ \A id \in Ids(elements), shiftKey \in BOOLEAN :
            (CreationTool /\ MouseDownElement
               /\ handleElementSelect(id, 0, p, shiftKey))
              => CreatedAt(p)]_vars

\* the same for the presses on the background, outside a resize and a rotation
C34_BackgroundPressCreates ==
  [][\A p \in DownPts :
       (/\ CreationTool
        /\ ~resizeInfo.isResizing /\ ~rotateInfo.isRotating
        /\ MouseDownBackground /\ handleMouseDown(0, p, TRUE))
         => CreatedAt(p)]_vars

\* in this state a pointer-move at p changes neither the elements nor the view
MoveChangesNothing(p, shiftKey) ==
  /\ MovedElements(p, shiftKey) = elements
  /\ MovedView(p) = viewTransform

\* C35: the re-delivery of an identical pointer position is idempotent: in
\* every gesture, the same pointer-move delivered a second time leaves the
\* elements and the view transform as the first delivery left them.
C35_MoveIdempotent ==
  [][\A p \in Pts, shiftKey \in BOOLEAN :
       (MouseMove /\ handleMouseMove(p, shiftKey) /\ ~crashed')
         => MoveChangesNothing(p, shiftKey)']_vars

\* the same for the gestures other than the freehand stroke
C35_MoveIdempotentButStroke ==
  [][\A p \in Pts, shiftKey \in BOOLEAN :
       (MouseMove /\ handleMouseMove(p, shiftKey) /\ MouseMoveBranch # "draw")
         => MoveChangesNothing(p, shiftKey)']_vars

\* C36: a pan (select tool, pointer-down on the background) clears the
\* selection and leaves the view where it was; after any number of
\* pointer-moves the view offset is the offset at the pointer-down plus the
\* last pointer position minus the position of the pointer-down, and the
\* scale is the one at the pointer-down.
C36_PanFollowsPointer ==
  [][/\ \A button \in Buttons, d \in DownPts :
          (/\ pointer.kind = "none" /\ pointer'.kind = "pan"
           /\ MouseDownBackground /\ handleMouseDown(button, d, TRUE))
            => /\ selectedIds' = <<>>
               /\ viewTransform' = viewTransform
               /\ pointer'.at = d
     /\ \A p \in Pts, shiftKey \in BOOLEAN :
          (/\ pointer.kind = "pan" /\ pointer.trace = "clean"
           /\ MouseMove /\ handleMouseMove(p, shiftKey))
            => /\ viewTransform'.x = pointer.view.x + (p.x - pointer.at.x)
               /\ viewTransform'.y = pointer.view.y + (p.y - pointer.at.y)
               /\ viewTransform'.scale = pointer.view.scale]_vars

\* a pan from the initial view, after the moves to (3, 4), back to (0, 0)
\* and to (3, 4) again
C36_Witness ==
  /\ pointer.kind = "pan"
  /\ pointer.trace = "clean"
  /\ pointer.view = [x |-> 0, y |-> 0, scale |-> 1]
  /\ events = 4
  /\ viewTransform = [x |-> 3, y |-> 4, scale |-> 1]
  /\ panStart = Pt(3, 4)
  /\ selectedIds = <<>>

\* C37: no update is lost across an asynchronous paste: when commits were
\* made between the start of a clipboard read and its resolution, then
\* after the text is applied the visible collection, which is the snapshot
\* at the cursor, holds every element the store held just before the
\* resolution and the new element, and the history entries up to the cursor
\* are all kept.
C37_NoLostUpdate ==
  [][\A i \in 1..Len(clipboardReads), text \in Texts \ {""} :
       (/\ ClipboardResolves
        /\ handlePasteResolved(i, text)
        /\ clipboardReads[i].history # history)
         => /\ SubSeq(elements', 1, Len(elements)) = elements
            /\ Len(elements') = Len(elements) + 1
            /\ elements' = history'[historyStep' + 1]
            /\ history' = Append(SubSeq(history, 1, historyStep + 1), elements')]_vars

\* the element of the stroke in progress, before and after the step
Stroke == Find(elements, LAMBDA el : el.id = pointer.id)
StrokeNext == Find(elements', LAMBDA el : el.id = pointer.id)

\* the step was a pointer-move of the stroke and appended its point to it
StrokeMoveAppends(p) ==
  /\ StrokeNext # Undefined
  /\ StrokeNext.points = Append(Stroke.points, getMousePos(p))

\* the step was the pointer-up of the stroke: it normalized and committed it
StrokeUpCommits ==
  /\ StrokeNext = normalizeDrawing(Stroke)
  /\ Len(history') = historyStep + 2
  /\ historyStep' = historyStep + 1
  /\ \E i \in 1..Len(history'[historyStep' + 1]) :
       history'[historyStep' + 1][i] = StrokeNext

\* C38: during a freehand stroke every pointer-move appends its world point
\* to the element the stroke's pointer-down created, and the pointer-up
\* normalizes and commits that same element, also when a native paste (or a
\* tool shortcut) is dispatched between the pointer-down and the pointer-up.
C38_StrokeKeepsItsElement ==
  [][(pointer.kind = "draw" /\ pointer.trace \in {"clean", "keys"})
       => /\ \A p \in Pts, shiftKey \in BOOLEAN :
               (MouseMove /\ handleMouseMove(p, shiftKey)) => StrokeMoveAppends(p)
          /\ (MouseUp \/ MouseLeave) => StrokeUpCommits]_vars

\* the same for the strokes with pointer-moves only
C38_StrokeAlone ==
  [][(pointer.kind = "draw" /\ pointer.trace = "clean")
       => /\ \A p \in Pts, shiftKey \in BOOLEAN :
               (MouseMove /\ handleMouseMove(p, shiftKey)) => StrokeMoveAppends(p)
          /\ (MouseUp \/ MouseLeave) => StrokeUpCommits]_vars

\* C39: in every reachable state every id of the selection is the id of an
\* element of the visible collection, after any sequence of creations,
\* deletions, duplications, undos and redos.
C39_SelectionIsVisible ==
  \A i \in 1..Len(selectedIds) : selectedIds[i] \in Ids(elements)

\* the step appended one element to the store
AppendedOne ==
  /\ Len(elements') = Len(elements) + 1
  /\ SubSeq(elements', 1, Len(elements)) = elements

\* C40: a newly created pen, shape, text, sticky or pasted element is drawn
\* on top: its zIndex is greater than or equal to the zIndex of every
\* element already in the store, also after bring-to-front operations and
\* deletions.
C40_CreatedOnTop ==
  [][((MouseDownBackground \/ Paste \/ ClipboardResolves) /\ AppendedOne)
       => \A i \in 1..Len(elements) :
            elements'[Len(elements')].zIndex >= elements[i].zIndex]_vars

====
